---- MODULE Spec2Model ----
(***************************************************************************)
(* Model of the review acquisition pipeline of app-store-review-scraper:   *)
(*   app/engine.py           Google Play adapter   (MarketplaceA)          *)
(*   app/appstore_engine.py  App Store adapter     (MarketplaceB)          *)
(*   app/ui_main.py          the handlers of the five buttons, the sort    *)
(*                           the crawl handlers hand on, _format_output    *)
(* The single-region adapter calls are pure functions of their arguments   *)
(* and of what the upstream source answers; the multi-country aggregation  *)
(* is a loop over the country list, a call and a return per country.       *)
(*   Spec        one aggregation, step by step                             *)
(*   SpecFetch   one call of a function of the engines                     *)
(*   SpecFormat  one call of _format_output                                *)
(*   SpecRuns    whole aggregations, one after the other                   *)
(*   SpecGUI     the button handlers, one click after the other            *)
(***************************************************************************)
EXTENDS Integers, Sequences, FiniteSets, TLC

(***************************************************************************)
(* Python values.  A str is the tuple of its characters, so that           *)
(* str.strip() and str.isdigit() are computed and not assumed.             *)
(***************************************************************************)
PyNone == [type |-> "NoneType"]

Str(chars) == [type |-> "str", chars |-> chars]

\* a str whose characters nothing reads, kept in one piece
Opaque(word) == Str(<<word>>)

\* bool(v) for None and str: None and '' are falsy
Truthy(v) == v.type = "str" /\ v.chars # <<>>

\* a or b
PyOr(a, b) == IF Truthy(a) THEN a ELSE b

Whitespace == {" ", "\t", "\n"}

Digits == {"0", "1", "2", "3", "4", "5", "6", "7", "8", "9"}

RECURSIVE LStrip(_)
LStrip(cs) ==
    IF cs # <<>> /\ Head(cs) \in Whitespace THEN LStrip(Tail(cs)) ELSE cs

RECURSIVE RStrip(_)
RStrip(cs) ==
    IF cs # <<>> /\ cs[Len(cs)] \in Whitespace
    THEN RStrip(SubSeq(cs, 1, Len(cs) - 1))
    ELSE cs

\* str.strip()
Strip(s) == Str(RStrip(LStrip(s.chars)))

\* str.isdigit()
IsDigit(s) == s.chars # <<>> /\ \A i \in 1..Len(s.chars) : s.chars[i] \in Digits

UpperCase ==
    <<"A", "B", "C", "D", "E", "F", "G", "H", "I", "J", "K", "L", "M",
      "N", "O", "P", "Q", "R", "S", "T", "U", "V", "W", "X", "Y", "Z">>

LowerCase ==
    <<"a", "b", "c", "d", "e", "f", "g", "h", "i", "j", "k", "l", "m",
      "n", "o", "p", "q", "r", "s", "t", "u", "v", "w", "x", "y", "z">>

LowerChar(c) ==
    IF \E k \in 1..Len(UpperCase) : UpperCase[k] = c
    THEN LowerCase[CHOOSE k \in 1..Len(UpperCase) : UpperCase[k] = c]
    ELSE c

\* str.lower()
Lower(s) == Str([k \in 1..Len(s.chars) |-> LowerChar(s.chars[k])])

Min(a, b) == IF a <= b THEN a ELSE b

\* seq[:k] for k >= 0
Take(seq, k) == SubSeq(seq, 1, Min(k, Len(seq)))

\* a key the upstream mapping does not hold
Absent == [type |-> "absent"]

\* d.get(key, default) for the value v the mapping holds under key
Get(v, default) == IF v = Absent THEN default ELSE v

\* the outcome of a function body: it returns a value or raises
Return(v) == [raised |-> FALSE, value |-> v]

Raise(exc) == [raised |-> TRUE, exc |-> exc]

(***************************************************************************)
(* app/engine.py: the Google Play adapter.                                 *)
(* What scraper.reviews_analyze answers:                                   *)
(*   [kind |-> "raise"]                  it raises                         *)
(*   [kind |-> "none"]                   it returns None                   *)
(*   [kind |-> "list", data |-> <<..>>]  it returns a list of mappings     *)
(* A raw review is [reviewId, text, score]: the value under each key, or   *)
(* Absent; the keys the model does not carry are absent from it, so        *)
(* review.get(key) is None for them.                                       *)
(***************************************************************************)
GPErrorList(msg, app_id) == << [error |-> msg, app_id |-> app_id] >>

\* the sort words of the call boundary
Newest == Str(<<"n", "e", "w", "e", "s", "t">>)

Rating == Str(<<"r", "a", "t", "i", "n", "g">>)

Helpfulness == Str(<<"h", "e", "l", "p", "f", "u", "l", "n", "e", "s", "s">>)

\* sort_value = sort_mapping.get(sort.lower(), "NEWEST")
GPSortValue(sort) ==
    LET key == Lower(sort)
    IN  IF key = Newest THEN "NEWEST"
        ELSE IF key = Rating THEN "RATING"
        ELSE IF key = Helpfulness THEN "RELEVANT"
        ELSE "NEWEST"

\* the calls of the scraping capability fetch_app_reviews makes: one of
\* scraper.reviews_analyze, with its keyword arguments (lang left out)
GPReviewsCalls(app_id, count, country, sort) ==
    << [to      |-> "scraper.reviews_analyze",
        app_id  |-> app_id,
        country |-> country,
        count   |-> count,
        sort    |-> GPSortValue(sort)] >>

\* the calls of the scraping capability fetch_app_info makes
GPInfoCalls(app_id, country) ==
    << [to |-> "scraper.app_analyze", app_id |-> app_id, country |-> country] >>

\* the mapping without one of its keys
Without(mapping, key) == [k \in DOMAIN mapping \ {key} |-> mapping[k]]

\* a review_info with the key rating only when the record has a score
GPReviewInfoSparse(review) ==
    LET full == [review_id   |-> Get(review.reviewId, PyNone),
                 user_name   |-> PyNone,
                 user_image  |-> PyNone,
                 rating      |-> Get(review.score, PyNone),
                 date        |-> PyNone,
                 text        |-> Get(review.text, PyNone),
                 thumbs_up   |-> 0,
                 app_version |-> PyNone,
                 reply_text  |-> PyNone,
                 reply_date  |-> PyNone]
    IN  IF review.score = Absent THEN Without(full, "rating") ELSE full

GPReviewInfo(review) ==
    [review_id   |-> Get(review.reviewId, PyNone),
     user_name   |-> PyNone,
     user_image  |-> PyNone,
     rating      |-> Get(review.score, PyNone),
     date        |-> PyNone,
     text        |-> Get(review.text, PyNone),
     thumbs_up   |-> 0,
     app_version |-> PyNone,
     reply_text  |-> PyNone,
     reply_date  |-> PyNone]

\* the skip test without the text_only flag
GPSkipBlank(review_text, text_only) == ~Truthy(review_text)

\* if text_only and not review_text: continue
GPSkip(review_text, text_only) == text_only /\ ~Truthy(review_text)

\* the loop over reviews_data: the records not skipped, in order, each
\* turned into a review_info
GPParse(reviews_data, text_only) ==
    LET Kept(review) == ~GPSkip(Get(review.text, PyNone), text_only)
        kept == SelectSeq(reviews_data, Kept)
    IN  [k \in 1..Len(kept) |-> GPReviewInfo(kept[k])]

\* the body without "if not reviews_data": the loop over None raises, the
\* loop over an empty list appends nothing
GPReviewsBodyNoEmptyTest(app_id, count, text_only, up) ==
    IF up.kind \in {"raise", "none"} THEN Raise("Exception")
    ELSE Return(GPParse(up.data, text_only))

\* the body of the try block of fetch_app_reviews
GPReviewsBody(app_id, count, text_only, up) ==
    IF up.kind = "raise" THEN Raise("Exception")
    ELSE IF up.kind = "none" \/ up.data = <<>>
         THEN Return(GPErrorList("No reviews found", app_id))
         ELSE Return(GPParse(up.data, text_only))

\* the except clause of fetch_app_reviews
GPReviewsExcept(out, app_id) ==
    IF out.raised THEN Return(GPErrorList("Error fetching reviews", app_id))
    ELSE out

\* engine.fetch_app_reviews
GPFetchAppReviews(app_id, count, text_only, up) ==
    GPReviewsExcept(GPReviewsBody(app_id, count, text_only, up), app_id)

(***************************************************************************)
(* What scraper.app_analyze answers:                                       *)
(*   [kind |-> "raise"], [kind |-> "none"] (None or an empty mapping), or  *)
(*   [kind |-> "dict", appId |-> .., title |-> ..]                         *)
(***************************************************************************)
\* the Error mapping without its app_id
GPErrorBare(msg, app_id) == [error |-> msg]

GPError(msg, app_id) == [error |-> msg, app_id |-> app_id]

GPAppInfo(result, app_id) ==
    [app_id         |-> Get(result.appId, app_id),
     title          |-> Get(result.title, Opaque("N/A")),
     developer      |-> Opaque("N/A"),
     developer_id   |-> PyNone,
     icon           |-> PyNone,
     rating         |-> PyNone,
     ratings_count  |-> PyNone,
     reviews_count  |-> PyNone,
     installs       |-> PyNone,
     price          |-> PyNone,
     currency       |-> PyNone,
     description    |-> PyNone,
     summary        |-> PyNone,
     released       |-> PyNone,
     last_updated   |-> PyNone,
     version        |-> PyNone,
     category       |-> PyNone,
     content_rating |-> PyNone,
     url            |-> PyNone]

\* the body of the try block of fetch_app_info
GPInfoBody(app_id, up) ==
    IF up.kind = "raise" THEN Raise("Exception")
    ELSE IF up.kind = "none" THEN Return(GPError("No data returned", app_id))
         ELSE Return(GPAppInfo(up, app_id))

\* the except clause of fetch_app_info
GPInfoExcept(out, app_id) ==
    IF out.raised THEN Return(GPError("Error fetching app info", app_id))
    ELSE out

\* engine.fetch_app_info
GPFetchAppInfo(app_id, up) == GPInfoExcept(GPInfoBody(app_id, up), app_id)

(***************************************************************************)
(* app/appstore_engine.py: the App Store adapter.                          *)
(* What requests.get(url, timeout=10) and response.json() answer:          *)
(*   [kind |-> "network_error"]  requests raises a RequestException        *)
(*                               (connection failure, timeout)             *)
(*   [kind |-> "http_error"]     a response with status_code # 200         *)
(*   [kind |-> "malformed"]      status 200, response.json() raises        *)
(*   [kind |-> "ok", entries |-> <<..>>]  status 200 and a document whose  *)
(*        feed.entry is the given list (empty when the key is absent)      *)
(* A raw entry is [id, content, name, rating, title]: the label under id,  *)
(* content, im:name, im:rating and title, or Absent.                       *)
(***************************************************************************)
MaxReviews == 500

ASSuggestion == "Find the numeric app ID from the App Store URL"

\* every Error under the message of the empty feed
ASErrorListNoReviews(msg, app_id) ==
    << [error |-> "No reviews found for this app", app_id |-> app_id] >>

ASErrorList(msg, app_id) == << [error |-> msg, app_id |-> app_id] >>

ASReviewInfo(entry) ==
    [review_id  |-> Get(entry.id, Str(<<>>)),
     user_name  |-> Opaque("Anonymous"),
     rating     |-> Get(entry.rating, Opaque("N/A")),
     date       |-> Str(<<>>),
     title      |-> Get(entry.title, Str(<<>>)),
     text       |-> Get(entry.content, Str(<<>>)),
     version    |-> Opaque("N/A"),
     vote_sum   |-> Str(<<"0">>),
     vote_count |-> Str(<<"0">>)]

\* if text_only and not review_text.strip(): continue
ASSkip(review_text, text_only) == text_only /\ ~Truthy(Strip(review_text))

\* the loop over review_entries[:max_count]: the entries not skipped, in
\* order, each turned into a review_info
ASParse(review_entries, text_only) ==
    LET Kept(entry) == ~ASSkip(Get(entry.content, Str(<<>>)), text_only)
        kept == SelectSeq(review_entries, Kept)
    IN  [k \in 1..Len(kept) |-> ASReviewInfo(kept[k])]

\* the sort words of the feed
MostRecent ==
    Str(<<"m", "o", "s", "t", "R", "e", "c", "e", "n", "t">>)

MostHelpful ==
    Str(<<"m", "o", "s", "t", "H", "e", "l", "p", "f", "u", "l">>)

\* sort_by = "mostHelpful" whatever sort is
ASSortByHelpful(sort) == "mostHelpful"

\* sort_by = "mostRecent" if sort == "mostRecent" else "mostHelpful"
ASSortBy(sort) == IF sort = MostRecent THEN "mostRecent" ELSE "mostHelpful"

\* requests.get(url, timeout=10)
RequestTimeout == 10

\* max_count = count
ASMaxCountUnclamped(count) == count

\* max_count = min(count, 500)
ASMaxCount(count) == Min(count, MaxReviews)

\* app_id = app_name whatever app_name is
ASResolveIdFromName(app_name, app_id) == app_name

\* if app_name.isdigit(): app_id = app_name
ASResolveId(app_name, app_id) == IF IsDigit(app_name) THEN app_name ELSE app_id

\* review_entries = entries
ASReviewEntriesAll(entries) == entries

\* review_entries = entries[1:] if len(entries) > 1 else []
ASReviewEntries(entries) == IF Len(entries) > 1 THEN Tail(entries) ELSE <<>>

\* the HTTP requests fetch_app_reviews issues: none without an identifier,
\* else one GET of .../{country}/rss/customerreviews/id={app_id}/sortBy=...
ASReviewsCalls(app_name, country, app_id, sort) ==
    LET id == ASResolveId(app_name, app_id)
    IN  IF ~Truthy(id) THEN <<>>
        ELSE << [to      |-> "requests.get",
                 country |-> country,
                 id      |-> id,
                 sortBy  |-> ASSortBy(sort),
                 timeout |-> RequestTimeout] >>

\* the HTTP requests fetch_app_info issues: the same feed, sortBy=mostRecent
ASInfoCalls(app_name, country, app_id) ==
    LET id == ASResolveId(app_name, app_id)
    IN  IF ~Truthy(id) THEN <<>>
        ELSE << [to      |-> "requests.get",
                 country |-> country,
                 id      |-> id,
                 sortBy  |-> "mostRecent",
                 timeout |-> RequestTimeout] >>

\* the body of the try block of fetch_app_reviews
ASReviewsBody(app_name, count, app_id, text_only, up) ==
    LET id == ASResolveId(app_name, app_id)
    IN  IF ~Truthy(id)
        THEN Return(<< [error      |-> "App ID is required for App Store scraping",
                        app_name   |-> app_name,
                        suggestion |-> ASSuggestion] >>)
        ELSE IF up.kind = "network_error" THEN Raise("RequestException")
        ELSE IF up.kind = "http_error"
             THEN Return(ASErrorList("Failed to fetch reviews (HTTP)", id))
        ELSE IF up.kind = "malformed" THEN Raise("Exception")
        ELSE LET entries == up.entries
                 review_entries == ASReviewEntries(entries)
             IN  IF review_entries = <<>>
                 THEN Return(<< [error  |-> "No reviews found for this app",
                                 app_id |-> id,
                                 note   |-> "The app may not have any reviews yet"] >>)
                 ELSE Return(ASParse(Take(review_entries, ASMaxCount(count)),
                                     text_only))

\* no except clause: what the body raises goes on to the caller
ExceptNothing(out, app_name, app_id) == out

\* the two except clauses of fetch_app_reviews
ASReviewsExcept(out, app_name, app_id) ==
    IF ~out.raised THEN out
    ELSE IF out.exc = "RequestException"
         THEN Return(ASErrorList("Network error", PyOr(app_id, app_name)))
         ELSE Return(ASErrorList("Error fetching App Store reviews",
                                 PyOr(app_id, app_name)))

\* appstore_engine.fetch_app_reviews
ASFetchAppReviews(app_name, count, app_id, text_only, up) ==
    ASReviewsExcept(ASReviewsBody(app_name, count, app_id, text_only, up),
                    app_name, ASResolveId(app_name, app_id))

\* {}: an entry without any key
NoEntry ==
    [id |-> Absent, content |-> Absent, name |-> Absent, rating |-> Absent,
     title |-> Absent]

\* the body of the try block of appstore_engine.fetch_app_info
ASInfoBody(app_name, country, app_id, up) ==
    LET id == ASResolveId(app_name, app_id)
    IN  IF ~Truthy(id)
        THEN Return([error      |-> "App ID is required for App Store scraping",
                     app_name   |-> app_name,
                     suggestion |-> ASSuggestion])
        ELSE IF up.kind = "network_error" THEN Raise("RequestException")
        ELSE IF up.kind = "http_error"
             THEN Return([error  |-> "Failed to fetch app info (HTTP)",
                          app_id |-> id])
        ELSE IF up.kind = "malformed" THEN Raise("Exception")
        ELSE LET app_entry ==
                     IF up.entries # <<>> THEN up.entries[1]
                     ELSE NoEntry
             IN  Return([app_id     |-> id,
                         app_name   |-> Get(app_entry.name, Opaque("N/A")),
                         country    |-> country,
                         link       |-> "N/A",
                         icon       |-> "N/A",
                         fetched_at |-> "now",
                         method     |-> "iTunes RSS Feed API"])

\* the two except clauses of appstore_engine.fetch_app_info
ASInfoExcept(out, app_name, app_id) ==
    IF ~out.raised THEN out
    ELSE IF out.exc = "RequestException"
         THEN Return([error  |-> "Network error",
                      app_id |-> PyOr(app_id, app_name)])
         ELSE Return([error  |-> "Error fetching App Store info",
                      app_id |-> PyOr(app_id, app_name)])

\* appstore_engine.fetch_app_info
ASFetchAppInfo(app_name, country, app_id, up) ==
    ASInfoExcept(ASInfoBody(app_name, country, app_id, up),
                 app_name, ASResolveId(app_name, app_id))

(***************************************************************************)
(* fetch_reviews_multi_country, both engines: the loop over the countries. *)
(***************************************************************************)
GPDefaultCountries == <<"us", "kr", "jp", "gb", "de", "fr", "in", "br">>

ASDefaultCountries == <<"us", "gb", "ca", "au", "de", "fr", "jp", "kr">>

\* review["fetched_from_country"] = country
Stamp(review, country) ==
    [k \in DOMAIN review \cup {"fetched_from_country"} |->
        IF k = "fetched_from_country" THEN country ELSE review[k]]

\* if reviews and isinstance(reviews, list) and "error" in reviews[0]
IsErrorList(reviews) == reviews # <<>> /\ "error" \in DOMAIN reviews[1]

\* review.get("review_id")
ReviewId(review) ==
    IF "review_id" \in DOMAIN review THEN review.review_id ELSE PyNone

\* the admission test without the seen set
AdmissibleUnseenOrNot(review_id, seen) == Truthy(review_id)

\* the admission test without "review_id and"
AdmissibleUnseen(review_id, seen) == review_id \notin seen

\* engine.py: if review_id and review_id not in seen_review_ids
GPAdmissible(review_id, seen) == Truthy(review_id) /\ review_id \notin seen

\* appstore_engine.py: if review_id and review_id not in seen_review_ids
ASAdmissible(review_id, seen) == Truthy(review_id) /\ review_id \notin seen

\* the admission without seen_review_ids.add(review_id)
AdmitNoAdd(review, country, acc) ==
    [all_reviews     |-> Append(acc.all_reviews, Stamp(review, country)),
     seen_review_ids |-> acc.seen_review_ids]

\* the admission with all_reviews.insert(0, review) for append
AdmitInFront(review, country, acc) ==
    [all_reviews     |-> <<Stamp(review, country)>> \o acc.all_reviews,
     seen_review_ids |-> acc.seen_review_ids \cup {ReviewId(review)}]

\* engine.py: seen_review_ids.add(review_id);
\* review["fetched_from_country"] = country; all_reviews.append(review)
GPAdmit(review, country, acc) ==
    [all_reviews     |-> Append(acc.all_reviews, Stamp(review, country)),
     seen_review_ids |-> acc.seen_review_ids \cup {ReviewId(review)}]

\* appstore_engine.py: the same three statements
ASAdmit(review, country, acc) ==
    [all_reviews     |-> Append(acc.all_reviews, Stamp(review, country)),
     seen_review_ids |-> acc.seen_review_ids \cup {ReviewId(review)}]

\* engine.py: for review in reviews: ... ; acc is [all_reviews, seen_review_ids]
RECURSIVE GPAdmitAll(_, _, _)
GPAdmitAll(reviews, country, acc) ==
    IF reviews = <<>> THEN acc
    ELSE GPAdmitAll(Tail(reviews), country,
                    IF GPAdmissible(ReviewId(Head(reviews)), acc.seen_review_ids)
                    THEN GPAdmit(Head(reviews), country, acc)
                    ELSE acc)

\* appstore_engine.py: for review in reviews: ...
RECURSIVE ASAdmitAll(_, _, _)
ASAdmitAll(reviews, country, acc) ==
    IF reviews = <<>> THEN acc
    ELSE ASAdmitAll(Tail(reviews), country,
                    IF ASAdmissible(ReviewId(Head(reviews)), acc.seen_review_ids)
                    THEN ASAdmit(Head(reviews), country, acc)
                    ELSE acc)

\* How one pass through the loop body ends: with the locals acc, and on to
\* the next country.
Continue(acc) == [acc |-> acc, flow |-> "continue"]

\* the body of the loop with "return all_reviews" for the first continue
GPIterationGivingUp(out, country, acc) ==
    IF out.raised THEN Continue(acc)
    ELSE IF IsErrorList(out.value) THEN [acc |-> acc, flow |-> "return"]
         ELSE Continue(GPAdmitAll(out.value, country, acc))

\* engine.py: the body of the loop, given what fetch_app_reviews did
GPIteration(out, country, acc) ==
    IF out.raised THEN Continue(acc)                  \* except Exception: continue
    ELSE IF IsErrorList(out.value) THEN Continue(acc) \* Skip if error: continue
         ELSE Continue(GPAdmitAll(out.value, country, acc))

\* appstore_engine.py: the body of the loop
ASIteration(out, country, acc) ==
    IF out.raised THEN Continue(acc)
    ELSE IF IsErrorList(out.value) THEN Continue(acc)
         ELSE Continue(ASAdmitAll(out.value, country, acc))

\* the call without country=country: fetch_app_reviews takes its default
FetchCallDefaultCountry(a, country) ==
    [app       |-> IF a.platform = "Google Play" THEN a.app_id ELSE a.app_name,
     app_id    |-> a.app_id,
     country   |-> "us",
     count     |-> a.count,
     sort      |-> a.sort,
     text_only |-> a.text_only]

\* engine.py: the keyword arguments of fetch_app_reviews(app_id=app_id,
\* count=count_per_country, lang=lang, country=country, sort=sort,
\* text_only=text_only), a being the arguments of the aggregation; app is
\* the first argument
GPFetchCall(a, country) ==
    [app       |-> a.app_id,
     app_id    |-> a.app_id,
     country   |-> country,
     count     |-> a.count,
     sort      |-> a.sort,
     text_only |-> a.text_only]

\* appstore_engine.py: fetch_app_reviews(app_name=app_name, country=country,
\* count=count_per_country, app_id=app_id, sort=sort, text_only=text_only)
ASFetchCall(a, country) ==
    [app       |-> a.app_name,
     app_id    |-> a.app_id,
     country   |-> country,
     count     |-> a.count,
     sort      |-> a.sort,
     text_only |-> a.text_only]

\* the locals of fetch_reviews_multi_country before the loop, with the
\* calls made so far
StartOfRun ==
    [acc            |-> [all_reviews |-> <<>>, seen_review_ids |-> {}],
     fetch_calls    |-> <<>>,
     upstream_calls |-> <<>>]

\* the list and the set an earlier call ended with, taken up again
LocalsKept(left) == left

\* all_reviews = []; seen_review_ids = set(): both are locals, bound anew at
\* every call, whatever list and set an earlier call ended with (left)
LocalsAtEntry(left) == StartOfRun.acc

\* engine.py: "for country in countries" from position j on, the scraper
\* answering ups[j] for country j
RECURSIVE GPLoop(_, _, _, _, _)
GPLoop(a, cs, ups, j, run) ==
    IF j > Len(cs) THEN run
    ELSE LET fc  == GPFetchCall(a, cs[j])
             out == GPFetchAppReviews(fc.app_id, fc.count, fc.text_only, ups[j])
             it  == GPIteration(out, cs[j], run.acc)
             now == [acc            |-> it.acc,
                     fetch_calls    |-> Append(run.fetch_calls, fc),
                     upstream_calls |->
                         run.upstream_calls
                         \o GPReviewsCalls(fc.app_id, fc.count, fc.country, fc.sort)]
         IN  IF it.flow = "continue" THEN GPLoop(a, cs, ups, j + 1, now) ELSE now

\* appstore_engine.py: "for country in countries" from position j on
RECURSIVE ASLoop(_, _, _, _, _)
ASLoop(a, cs, ups, j, run) ==
    IF j > Len(cs) THEN run
    ELSE LET fc  == ASFetchCall(a, cs[j])
             out == ASFetchAppReviews(fc.app, fc.count, fc.app_id, fc.text_only,
                                      ups[j])
             it  == ASIteration(out, cs[j], run.acc)
             now == [acc            |-> it.acc,
                     fetch_calls    |-> Append(run.fetch_calls, fc),
                     upstream_calls |->
                         run.upstream_calls
                         \o ASReviewsCalls(fc.app, fc.country, fc.app_id, fc.sort)]
         IN  IF it.flow = "continue" THEN ASLoop(a, cs, ups, j + 1, now) ELSE now

(***************************************************************************)
(* app/ui_main.py: what the crawl handlers hand to the engines.            *)
(***************************************************************************)
\* the values of the "Sort By" menu
GUISorts == {Newest, Rating, Helpfulness}

\* sort="mostRecent" if inputs["sort"] == "newest" else "mostHelpful"
GUIAppStoreSort(menu) == IF menu = Newest THEN MostRecent ELSE MostHelpful

\* what _format_output is given and returns: a dict or a list, told apart
\* as isinstance does
PyDict(items) == [type |-> "dict", items |-> items]

PyList(items) == [type |-> "list", items |-> items]

\* review.get(key, default)
GetKey(review, key, default) ==
    IF key \in DOMAIN review THEN review[key] ELSE default

\* the review as it is
WholeReview(review) == review

\* {"text": review.get("text", "")}
TextOnlyProjection(review) == [text |-> GetKey(review, "text", Str(<<>>))]

\* {"title": review.get("title", ""), "text": review.get("text", "")}
TitleTextProjection(review) ==
    [title |-> GetKey(review, "title", Str(<<>>)),
     text  |-> GetKey(review, "text", Str(<<>>))]

\* the first test alone: isinstance(data, dict)
FormatReturnsDictAsIs(data) == data.type = "dict"

\* the tests of lines 625-634 under which data is returned as it is: a
\* dict; no list, or an empty one; a list whose first item holds "error"
FormatReturnsAsIs(data) ==
    \/ data.type = "dict"
    \/ data.type # "list"
    \/ data.items = <<>>
    \/ "error" \in DOMAIN data.items[1]

\* AppScraperGUI._format_output
FormatOutput(data, output_format) ==
    IF FormatReturnsAsIs(data) THEN data
    ELSE IF output_format = "Text only"
         THEN PyList([k \in 1..Len(data.items) |->
                         TextOnlyProjection(data.items[k])])
    ELSE IF output_format = "Title + Text"
         THEN PyList([k \in 1..Len(data.items) |->
                         TitleTextProjection(data.items[k])])
    ELSE data

\* the values of the "Output Format" menu
OutputFormats == {"Full", "Text only", "Title + Text"}

\* the buttons _set_buttons_state configures
Buttons ==
    {"app_info_btn", "reviews_btn", "multi_country_btn", "export_btn",
     "clear_btn"}

\* AppScraperGUI._set_buttons_state: for btn in buttons:
\* btn.configure(state=state)
SetButtonsState(state) == [b \in Buttons |-> state]

\* the buttons enabled again unless the except clause ran
ButtonsUnlessRaised(ended, now) ==
    IF ended = "exception" THEN now ELSE SetButtonsState("normal")

\* finally: self._set_buttons_state("normal"), however the try block ended
\* (ended), whatever the buttons are now
ButtonsFinally(ended, now) == SetButtonsState("normal")

\* AppScraperGUI._get_input_values: the form as the handlers read it; the
\* App ID entry is stripped, lang is left out
GetInputValues(form) ==
    [app_id    |-> Strip(form.app_id),
     country   |-> form.country,
     count     |-> form.count,
     sort      |-> form.sort,
     platform  |-> form.platform,
     text_only |-> form.text_only]

\* AppScraperGUI._validate_inputs: False (after an error box) when app_id
\* is empty, else True, with or without a warning box
ValidateInputs(inputs) == Truthy(inputs.app_id)

\* a value of the scraper that json cannot encode, a datetime for one
NotJson == [type |-> "datetime"]

\* json.dumps(data) and json.dump(data, f) return: they raise TypeError on
\* a value that is no str, number, bool, None, list or dict.  The values
\* that can be one are those the engines hand on as the scraper delivered
\* them: the model carries the rating of a review and the title of an app.
JsonEncodable(data) ==
    IF data.type = "list"
    THEN \A k \in 1..Len(data.items) :
            "rating" \in DOMAIN data.items[k]
                => data.items[k].rating # NotJson
    ELSE IF data.type = "dict"
    THEN "title" \in DOMAIN data.items => data.items.title # NotJson
    ELSE TRUE

\* _crawl_app_info: the engine call, lines 392-404
CrawlAppInfoFetch(inputs, up) ==
    IF inputs.platform = "Google Play"
    THEN GPFetchAppInfo(inputs.app_id, up)
    ELSE ASFetchAppInfo(inputs.app_id, inputs.country, PyNone, up)

\* _crawl_reviews: the engine call, lines 449-465; the App Store engine is
\* given no app_id and the sort made of the menu's word
CrawlReviewsFetch(inputs, up) ==
    IF inputs.platform = "Google Play"
    THEN GPFetchAppReviews(inputs.app_id, inputs.count, inputs.text_only, up)
    ELSE ASFetchAppReviews(inputs.app_id, inputs.count, PyNone,
                           inputs.text_only, up)

\* _crawl_reviews_multi_country: the engine call, lines 522-536, no country
\* list given; cs are the default countries it gets to
CrawlMultiFetch(inputs, cs, ups) ==
    IF inputs.platform = "Google Play"
    THEN Return(GPLoop([platform |-> "Google Play", app_id |-> inputs.app_id,
                        count |-> inputs.count, sort |-> inputs.sort,
                        text_only |-> inputs.text_only],
                       cs, ups, 1, StartOfRun).acc.all_reviews)
    ELSE Return(ASLoop([platform |-> "App Store", app_name |-> inputs.app_id,
                        app_id |-> PyNone, count |-> inputs.count,
                        sort |-> GUIAppStoreSort(inputs.sort),
                        text_only |-> inputs.text_only],
                       cs, ups, 1, StartOfRun).acc.all_reviews)

\* the data_type a crawl handler assigns
DataType(fn) ==
    IF fn = "_crawl_app_info" THEN "app_info"
    ELSE IF fn = "_crawl_reviews" THEN "reviews"
    ELSE "reviews_multi_country"

\* _crawl_app_info: if "error" in result
InfoFailed(result) == "error" \in DOMAIN result

\* _crawl_reviews: if result and isinstance(result, list) and
\* "error" in result[0]
ReviewsFailed(result) == IsErrorList(result)

\* the test of _crawl_reviews_multi_country without "not result"
MultiFailedOnError(result) == IsErrorList(result)

\* _crawl_reviews_multi_country: if not result or (isinstance(result, list)
\* and "error" in result[0])
MultiFailed(result) == result = <<>> \/ IsErrorList(result)

\* the engine call raised: the except clause shows the error and nothing
\* is stored
TryRaised(now) == [ended |-> "exception", stored |-> now]

\* what the try block of a crawl handler does once the engine call has
\* returned result (data: the same as PyDict or PyList): under failed the
\* error is shown and nothing stored; else current_data and data_type are
\* assigned first and the formatted result is dumped and shown after,
\* which raises when json cannot encode it.  stored: what the two
\* attributes hold afterwards, now being what they held before.
CrawlTry(failed, empty, data, type, shown, now) ==
    IF failed
    THEN [ended |-> IF empty THEN "empty" ELSE "error", stored |-> now]
    ELSE [ended  |-> IF JsonEncodable(shown) THEN "success" ELSE "exception",
          stored |-> [current_data |-> data, data_type |-> type]]

(***************************************************************************)
(* Bounds and the inputs drawn within them.                                *)
(***************************************************************************)
\* countries of one aggregation: the first 1..MaxRegions default countries
MaxRegions == 2

\* records one upstream answer holds (after the App Store's first entry)
MaxFeed == 2

\* small requested counts; the GUI passes count >= 1
MaxCount == 2

\* how far the long App Store feeds and the large counts go past MaxReviews
MaxOver == 2

SeqsUpTo(S, n) == UNION {[1..k -> S] : k \in 0..n}

\* the same, no element twice
FeedsUpTo(S, n) ==
    {s \in SeqsUpTo(S, n) : \A a, b \in 1..Len(s) : a # b => s[a] # s[b]}

R1 == Str(<<"r", "1">>)

R2 == Str(<<"r", "2">>)

GPApp == Opaque("com.example.app")

ASAppNames == {Str(<<"2", "8">>), Str(<<"f", "b">>)}

ASAppIds == {PyNone, Str(<<"9">>)}

AppEntry ==
    [id |-> Absent, content |-> Absent, name |-> Opaque("Facebook"),
     rating |-> Absent, title |-> Absent]

\* the answers of one country during an aggregation: two ids, one of them
\* under two texts, and a record without id; an answer holds no record twice
AggRaw == {[id |-> R1, text |-> Str(<<"a">>)],
           [id |-> R1, text |-> Str(<<" ">>)],
           [id |-> R2, text |-> Str(<<"a">>)],
           [id |-> Absent, text |-> Str(<<"a">>)]}

AggGPRaw == {[reviewId |-> e.id, text |-> e.text, score |-> Absent] : e \in AggRaw}

AggASRaw ==
    {[id |-> e.id, content |-> e.text, name |-> Absent, rating |-> Absent,
      title |-> Absent] : e \in AggRaw}

\* the counts of an aggregation; engine.py hands count on and never reads it
AggCounts(platform) ==
    IF platform = "Google Play" THEN {MaxCount} ELSE {1, MaxCount}

AggGPUpstream ==
    {[kind |-> "raise"], [kind |-> "none"]}
    \cup {[kind |-> "list", data |-> d] :
             d \in FeedsUpTo(AggGPRaw, MaxFeed)}

AggASUpstream ==
    {[kind |-> "network_error"], [kind |-> "http_error"], [kind |-> "malformed"],
     [kind |-> "ok", entries |-> <<>>]}
    \cup {[kind |-> "ok", entries |-> <<AppEntry>> \o d] :
             d \in FeedsUpTo(AggASRaw, MaxFeed)}

\* the answers to one single adapter call
FetchIds == {Absent, R1}

FetchTexts == {Absent, Str(<<>>), Str(<<" ">>), Str(<<"a">>), Str(<<" ", "a">>)}

\* int(count_entry) with count <= 0 replaced by 100: ui_main.py lines 326-331
Counts == (1..MaxCount) \cup ((MaxReviews - 1)..(MaxReviews + MaxOver))

\* a Python int
PyInt(n) == [type |-> "int", val |-> n]

\* the records of an answer: every id under every text without a score, and
\* one with the score the capability delivers, an int
GPFetchRaw ==
    [reviewId : FetchIds, text : FetchTexts, score : {Absent}]
    \cup {[reviewId |-> R1, text |-> Str(<<"a">>), score |-> PyInt(5)]}

GPReviewsUpstream ==
    {[kind |-> "raise"], [kind |-> "none"]}
    \cup {[kind |-> "list", data |-> d] : d \in SeqsUpTo(GPFetchRaw, MaxFeed)}

GPOtherApp == Opaque("com.example.other")

GPInfoUpstream ==
    {[kind |-> "raise"], [kind |-> "none"]}
    \cup [kind : {"dict"}, appId : {Absent, PyNone, GPApp, GPOtherApp},
          title : {Absent, Opaque("Example")}]

ASFailures ==
    {[kind |-> "network_error"], [kind |-> "http_error"], [kind |-> "malformed"]}

\* the first entry of a feed: the app's metadata, or an entry like a review
FirstEntries ==
    {AppEntry,
     [id |-> R2, content |-> Str(<<"a">>), name |-> Absent, rating |-> Absent,
      title |-> Absent]}

\* the review entries of a feed: every id under every text without rating
\* and title, and two with a title and the rating the feed delivers, a
\* label that reads as a number or does not
ASFetchRaw ==
    [id : FetchIds, content : FetchTexts, name : {Absent}, rating : {Absent},
     title : {Absent}]
    \cup {[id |-> R1, content |-> Str(<<"a">>), name |-> Absent,
           rating |-> Str(<<"5">>), title |-> Opaque("Great")],
          [id |-> R1, content |-> Str(<<"a">>), name |-> Absent,
           rating |-> Str(<<"f", "i", "v", "e">>), title |-> Str(<<>>)]}

ASShortFeeds ==
    {[kind |-> "ok", entries |-> <<>>]}
    \cup {[kind |-> "ok", entries |-> <<e0>> \o d] :
             e0 \in FirstEntries,
             d \in SeqsUpTo(ASFetchRaw, MaxFeed)}

\* feeds of about MaxReviews reviews, all alike
ASLongFeeds ==
    {[kind |-> "ok",
      entries |-> <<AppEntry>> \o [k \in 1..n |->
                      [id |-> R1, content |-> t, name |-> Absent,
                       rating |-> Absent, title |-> Absent]]] :
        n \in (MaxReviews - 1)..(MaxReviews + MaxOver),
        t \in {Str(<<"a">>), Str(<<" ">>)}}

ASUpstream == ASFailures \cup ASShortFeeds \cup ASLongFeeds

\* the sort words engine.fetch_app_reviews is called with: those of the
\* menu (the GUI hands inputs["sort"] on), one in capitals, one it does not
\* know
GPSortArgs == GUISorts \cup {Str(<<"N", "E", "W", "E", "S", "T">>), MostRecent}

\* who calls appstore_engine.fetch_app_reviews: a crawl handler of the GUI,
\* the menu at one of its values, with the sort it makes of it and no
\* app_id; or another caller (menu None) with a sort word and an app_id
ASCallers ==
    {[menu |-> m, sort |-> GUIAppStoreSort(m), app_id |-> PyNone] : m \in GUISorts}
    \cup [menu : {PyNone}, sort : {Newest, MostRecent}, app_id : ASAppIds]

\* the same for fetch_reviews_multi_country
ASMultiCallers ==
    {[menu |-> m, sort |-> GUIAppStoreSort(m), app_id |-> PyNone] : m \in GUISorts}
    \cup [menu : {PyNone}, sort : {Newest, MostRecent}, app_id : {PyNone}]

\* what one country answers during a whole call of the aggregation
MultiGPUpstream ==
    {[kind |-> "raise"]}
    \cup {[kind |-> "list",
           data |-> <<[reviewId |-> id, text |-> Str(<<"a">>), score |-> Absent]>>] :
             id \in {R1, R2}}

MultiASUpstream ==
    {[kind |-> "http_error"]}
    \cup {[kind |-> "ok",
           entries |-> <<AppEntry,
                         [id |-> id, content |-> Str(<<"a">>), name |-> Absent,
                          rating |-> Absent, title |-> Absent]>>] :
             id \in {R1, R2}}

\* what _format_output can be given: what the engines' functions return
FormatInputs ==
    {PyDict(GPFetchAppInfo(GPApp, up).value) : up \in GPInfoUpstream}
    \cup {PyDict(ASFetchAppInfo(n, "us", PyNone, up).value) :
              n \in ASAppNames, up \in ASFailures \cup ASShortFeeds}
    \cup {PyList(GPFetchAppReviews(GPApp, MaxCount, t, up).value) :
              t \in BOOLEAN, up \in GPReviewsUpstream}
    \cup {PyList(ASFetchAppReviews(n, MaxCount, PyNone, t, up).value) :
              n \in ASAppNames, t \in BOOLEAN,
              up \in ASFailures \cup ASShortFeeds}
    \cup UNION {{PyList(GPLoop([platform |-> "Google Play", app_id |-> GPApp,
                                count |-> MaxCount, sort |-> Newest,
                                text_only |-> FALSE],
                               SubSeq(GPDefaultCountries, 1, n), ups, 1,
                               StartOfRun).acc.all_reviews) :
                     ups \in [1..n -> MultiGPUpstream]} : n \in 1..MaxRegions}

\* what the form holds when a crawl button is clicked: the platform, the
\* App ID entry (an id, a name, or blanks only), the text-only switch
GUIForms ==
    [platform : {"Google Play"}, app_id : {GPApp, Str(<<" ">>)},
     country : {"us"}, count : {MaxCount}, sort : {Newest},
     text_only : BOOLEAN]
    \cup [platform : {"App Store"},
          app_id : {Str(<<"2", "8">>), Str(<<"f", "b">>), Str(<<" ">>)},
          country : {"us"}, count : {MaxCount}, sort : {Newest},
          text_only : {FALSE}]

\* what the upstream answers to the engine call of _crawl_app_info
GUIInfoUpstream(platform) ==
    IF platform = "Google Play"
    THEN {[kind |-> "raise"],
          [kind |-> "dict", appId |-> GPApp, title |-> Opaque("Example")],
          [kind |-> "dict", appId |-> GPApp, title |-> NotJson]}
    ELSE {[kind |-> "http_error"], [kind |-> "ok", entries |-> <<AppEntry>>]}

\* the same for _crawl_reviews: one review, with a score json can or
\* cannot encode, or with an empty text
GUIReviewsUpstream(platform) ==
    IF platform = "Google Play"
    THEN {[kind |-> "raise"]}
         \cup {[kind |-> "list",
                data |-> <<[reviewId |-> R1, text |-> t, score |-> sc]>>] :
                  t \in {Str(<<"a">>)}, sc \in {Absent, NotJson}}
         \cup {[kind |-> "list",
                data |-> <<[reviewId |-> R1, text |-> Str(<<>>),
                            score |-> Absent]>>]}
    ELSE {up \in MultiASUpstream : up.kind = "http_error" \/ up.entries[2].id = R1}

\* the same for one country of _crawl_reviews_multi_country
GUIMultiUpstream(platform) ==
    IF platform = "Google Play"
    THEN {up \in MultiGPUpstream : up.kind = "raise" \/ up.data[1].reviewId = R1}
    ELSE {up \in MultiASUpstream : up.kind = "http_error" \/ up.entries[2].id = R1}

\* the default countries fetch_reviews_multi_country gets to
GUICountries(platform) ==
    IF platform = "Google Play" THEN SubSeq(GPDefaultCountries, 1, MaxRegions)
    ELSE SubSeq(ASDefaultCountries, 1, MaxRegions)

(***************************************************************************)
(* State.                                                                  *)
(*   pc               "idle", "loop" (inside fetch_reviews_multi_country,  *)
(*                    between two fetches), "fetching" (inside it, within  *)
(*                    fetch_app_reviews), "done" (it returned), "returned" *)
(*                    (a single call returned)                             *)
(*   args             the arguments of the running aggregation             *)
(*   countries, i     the country list and the position of the loop        *)
(*   all_reviews, seen_review_ids   the locals of the aggregation          *)
(*   fetched          what fetch_app_reviews did for countries 1..i-1      *)
(*   result           what the aggregation returned (<<>> until it does)   *)
(*   call, outcome    the last single call and what it did; in the GUI, the *)
(*                    handler running and the last handler that returned,  *)
(*                    with how it ended, the attributes as it found them   *)
(*                    (before) and, for Export, how the handler before it  *)
(*                    ended (after)                                        *)
(*   fetch_calls      the calls of fetch_app_reviews the aggregation made, *)
(*                    each with its keyword arguments                      *)
(*   upstream_calls   the calls of the scraper and the HTTP requests made  *)
(*   buttons          the state of each of the five buttons                *)
(*   current_data, data_type   the attributes of AppScraperGUI; a dict is  *)
(*                    held as PyDict, a list as PyList                     *)
(*   written          what the handler that just returned wrote to a file  *)
(*   last_success     the last value an engine call of a crawl handler     *)
(*                    returned that was no Error and no empty aggregation, *)
(*                    with the handler's data type; none after Clear       *)
(*   noted            one whole call of fetch_reviews_multi_country made   *)
(*                    earlier in this process, with what it returned and   *)
(*                    whether other calls came before and after it         *)
(***************************************************************************)
VARIABLES pc, args, countries, i, all_reviews, seen_review_ids, fetched,
          result, call, outcome, fetch_calls, upstream_calls, noted,
          buttons, current_data, data_type, written, last_success

vars == <<pc, args, countries, i, all_reviews, seen_review_ids, fetched,
          result, call, outcome, fetch_calls, upstream_calls, noted,
          buttons, current_data, data_type, written, last_success>>

aggVars == <<args, countries, i, all_reviews, seen_review_ids, fetched, result>>

guiVars == <<buttons, current_data, data_type, written, last_success>>

\* what outlives one call
sessionVars == <<noted, guiVars>>

NoFile == [kind |-> "none"]

\* self.current_data and self.data_type
Attributes == [current_data |-> current_data, data_type |-> data_type]

NoData == [current_data |-> PyNone, data_type |-> PyNone]

NoCall == [fn |-> "none"]

NoRun == [call |-> NoCall]

\* the App Store app of the calls made one after the other
RunAppName == Str(<<"2", "8">>)

\* what one country answers to the calls made one after the other
RunGPUpstream == {up \in MultiGPUpstream : up.kind = "list"}

RunASUpstream == {up \in MultiASUpstream : up.kind = "ok"}

\* the call noted: this one when note holds (after_other: the call before
\* it was another one), else the one noted before, which is now an earlier
\* call (earlier), with then_other once another call than it came after it
Note(note, this, returned) ==
    IF note
    THEN [call        |-> this,
          outcome     |-> returned,
          after_other |-> pc = "returned" /\ call # this,
          then_other  |-> FALSE,
          earlier     |-> FALSE]
    ELSE IF noted = NoRun THEN noted
    ELSE [noted EXCEPT !.earlier = TRUE,
                       !.then_other = @ \/ this # noted.call]

Init ==
    /\ pc = "idle"
    /\ args = [platform |-> "none"]
    /\ countries = <<>>
    /\ i = 1
    /\ all_reviews = <<>>
    /\ seen_review_ids = {}
    /\ fetched = <<>>
    /\ result = <<>>
    /\ call = NoCall
    /\ outcome = Return(<<>>)
    /\ fetch_calls = <<>>
    /\ upstream_calls = <<>>
    /\ noted = NoRun
    /\ buttons = SetButtonsState("normal")
    /\ current_data = PyNone
    /\ data_type = PyNone
    /\ written = NoFile
    /\ last_success = NoData

\* engine.fetch_reviews_multi_country is entered: lines 192-198
GPMultiStart ==
    /\ pc = "idle"
    /\ \E n \in 1..MaxRegions, count \in AggCounts("Google Play"),
          text_only \in BOOLEAN :
         /\ args' = [platform |-> "Google Play", app_id |-> GPApp,
                     count |-> count, sort |-> Newest, text_only |-> text_only]
         /\ countries' = SubSeq(GPDefaultCountries, 1, n)
    /\ i' = 1
    /\ all_reviews' = <<>>
    /\ seen_review_ids' = {}
    /\ fetched' = <<>>
    /\ result' = <<>>
    /\ fetch_calls' = <<>>
    /\ upstream_calls' = <<>>
    /\ pc' = "loop"
    /\ UNCHANGED <<call, outcome>>
    /\ UNCHANGED sessionVars

\* appstore_engine.fetch_reviews_multi_country is entered: lines 221-227
ASMultiStart ==
    /\ pc = "idle"
    /\ \E n \in 1..MaxRegions, count \in AggCounts("App Store"),
          text_only \in BOOLEAN, app_name \in ASAppNames :
         /\ args' = [platform |-> "App Store", app_name |-> app_name,
                     app_id |-> PyNone, count |-> count, sort |-> MostRecent,
                     text_only |-> text_only]
         /\ countries' = SubSeq(ASDefaultCountries, 1, n)
    /\ i' = 1
    /\ all_reviews' = <<>>
    /\ seen_review_ids' = {}
    /\ fetched' = <<>>
    /\ result' = <<>>
    /\ fetch_calls' = <<>>
    /\ upstream_calls' = <<>>
    /\ pc' = "loop"
    /\ UNCHANGED <<call, outcome>>
    /\ UNCHANGED sessionVars

\* engine.py: "for country in countries" takes the next country and calls
\* fetch_app_reviews, which calls the scraper
GPMultiCall ==
    /\ pc = "loop"
    /\ args.platform = "Google Play"
    /\ i <= Len(countries)
    /\ LET fc == GPFetchCall(args, countries[i])
       IN  /\ fetch_calls' = Append(fetch_calls, fc)
           /\ upstream_calls' =
                  upstream_calls
                  \o GPReviewsCalls(fc.app_id, fc.count, fc.country, fc.sort)
    /\ pc' = "fetching"
    /\ UNCHANGED <<aggVars, call, outcome>>
    /\ UNCHANGED sessionVars

\* appstore_engine.py: the same; fetch_app_reviews issues its HTTP request
\* when it has an identifier
ASMultiCall ==
    /\ pc = "loop"
    /\ args.platform = "App Store"
    /\ i <= Len(countries)
    /\ LET fc == ASFetchCall(args, countries[i])
       IN  /\ fetch_calls' = Append(fetch_calls, fc)
           /\ upstream_calls' =
                  upstream_calls
                  \o ASReviewsCalls(fc.app, fc.country, fc.app_id, fc.sort)
    /\ pc' = "fetching"
    /\ UNCHANGED <<aggVars, call, outcome>>
    /\ UNCHANGED sessionVars

\* engine.py: fetch_app_reviews returns and the rest of the loop body runs
GPMultiStep ==
    /\ pc = "fetching"
    /\ args.platform = "Google Play"
    /\ \E up \in AggGPUpstream :
         LET fc  == fetch_calls[Len(fetch_calls)]
             out == GPFetchAppReviews(fc.app_id, fc.count, fc.text_only, up)
             it  == GPIteration(out, countries[i],
                                [all_reviews |-> all_reviews,
                                 seen_review_ids |-> seen_review_ids])
         IN  /\ all_reviews' = it.acc.all_reviews
             /\ seen_review_ids' = it.acc.seen_review_ids
             /\ fetched' = Append(fetched, out)
             /\ IF it.flow = "continue"
                THEN /\ i' = i + 1
                     /\ pc' = "loop"
                     /\ UNCHANGED result
                ELSE /\ pc' = "done"
                     /\ result' = it.acc.all_reviews
                     /\ UNCHANGED i
    /\ UNCHANGED <<args, countries, call, outcome, fetch_calls, upstream_calls>>
    /\ UNCHANGED sessionVars

\* appstore_engine.py: fetch_app_reviews returns and the rest of the loop
\* body runs
ASMultiStep ==
    /\ pc = "fetching"
    /\ args.platform = "App Store"
    /\ \E up \in AggASUpstream :
         LET fc  == fetch_calls[Len(fetch_calls)]
             out == ASFetchAppReviews(fc.app, fc.count, fc.app_id,
                                      fc.text_only, up)
             it  == ASIteration(out, countries[i],
                                [all_reviews |-> all_reviews,
                                 seen_review_ids |-> seen_review_ids])
         IN  /\ all_reviews' = it.acc.all_reviews
             /\ seen_review_ids' = it.acc.seen_review_ids
             /\ fetched' = Append(fetched, out)
             /\ IF it.flow = "continue"
                THEN /\ i' = i + 1
                     /\ pc' = "loop"
                     /\ UNCHANGED result
                ELSE /\ pc' = "done"
                     /\ result' = it.acc.all_reviews
                     /\ UNCHANGED i
    /\ UNCHANGED <<args, countries, call, outcome, fetch_calls, upstream_calls>>
    /\ UNCHANGED sessionVars

\* engine.py: the loop is over, return all_reviews
GPMultiReturn ==
    /\ pc = "loop"
    /\ args.platform = "Google Play"
    /\ i > Len(countries)
    /\ result' = all_reviews
    /\ pc' = "done"
    /\ UNCHANGED <<args, countries, i, all_reviews, seen_review_ids, fetched,
                   call, outcome, fetch_calls, upstream_calls>>
    /\ UNCHANGED sessionVars

\* appstore_engine.py: the loop is over, return all_reviews
ASMultiReturn ==
    /\ pc = "loop"
    /\ args.platform = "App Store"
    /\ i > Len(countries)
    /\ result' = all_reviews
    /\ pc' = "done"
    /\ UNCHANGED <<args, countries, i, all_reviews, seen_review_ids, fetched,
                   call, outcome, fetch_calls, upstream_calls>>
    /\ UNCHANGED sessionVars

\* a single call of engine.fetch_app_info
GPCallAppInfo ==
    /\ pc = "idle"
    /\ \E up \in GPInfoUpstream :
         /\ call' = [fn |-> "engine.fetch_app_info", app_id |-> GPApp,
                     country |-> "us", up |-> up]
         /\ outcome' = GPFetchAppInfo(GPApp, up)
    /\ upstream_calls' = GPInfoCalls(GPApp, "us")
    /\ pc' = "returned"
    /\ UNCHANGED <<aggVars, fetch_calls>>
    /\ UNCHANGED sessionVars

\* a single call of engine.fetch_app_reviews
GPCallAppReviews ==
    /\ pc = "idle"
    /\ \E up \in GPReviewsUpstream, count \in Counts, text_only \in BOOLEAN,
          sort \in GPSortArgs :
         /\ call' = [fn |-> "engine.fetch_app_reviews", app_id |-> GPApp,
                     count |-> count, country |-> "us", sort |-> sort,
                     text_only |-> text_only, up |-> up]
         /\ outcome' = GPFetchAppReviews(GPApp, count, text_only, up)
         /\ upstream_calls' = GPReviewsCalls(GPApp, count, "us", sort)
    /\ pc' = "returned"
    /\ UNCHANGED <<aggVars, fetch_calls>>
    /\ UNCHANGED sessionVars

\* a single call of appstore_engine.fetch_app_info
ASCallAppInfo ==
    /\ pc = "idle"
    /\ \E up \in ASFailures \cup ASShortFeeds, app_name \in ASAppNames,
          app_id \in ASAppIds :
         /\ call' = [fn |-> "appstore_engine.fetch_app_info",
                     app_name |-> app_name, country |-> "us",
                     app_id |-> app_id, up |-> up]
         /\ outcome' = ASFetchAppInfo(app_name, "us", app_id, up)
         /\ upstream_calls' = ASInfoCalls(app_name, "us", app_id)
    /\ pc' = "returned"
    /\ UNCHANGED <<aggVars, fetch_calls>>
    /\ UNCHANGED sessionVars

\* a single call of appstore_engine.fetch_app_reviews
ASCallAppReviews ==
    /\ pc = "idle"
    /\ \E up \in ASUpstream, app_name \in ASAppNames, by \in ASCallers,
          count \in Counts, text_only \in BOOLEAN :
         /\ call' = [fn |-> "appstore_engine.fetch_app_reviews",
                     app_name |-> app_name, country |-> "us", count |-> count,
                     app_id |-> by.app_id, sort |-> by.sort, menu |-> by.menu,
                     text_only |-> text_only, up |-> up]
         /\ outcome' = ASFetchAppReviews(app_name, count, by.app_id, text_only, up)
         /\ upstream_calls' = ASReviewsCalls(app_name, "us", by.app_id, by.sort)
    /\ pc' = "returned"
    /\ UNCHANGED <<aggVars, fetch_calls>>
    /\ UNCHANGED sessionVars

\* a whole call of engine.fetch_reviews_multi_country
GPCallReviewsMultiCountry ==
    /\ pc = "idle"
    /\ \E n \in 1..MaxRegions, sort \in GPSortArgs, text_only \in BOOLEAN :
         \E ups \in [1..n -> MultiGPUpstream] :
            LET a   == [platform |-> "Google Play", app_id |-> GPApp,
                        count |-> MaxCount, sort |-> sort,
                        text_only |-> text_only]
                cs  == SubSeq(GPDefaultCountries, 1, n)
                run == GPLoop(a, cs, ups, 1, StartOfRun)
            IN  /\ call' = [fn |-> "engine.fetch_reviews_multi_country",
                            args |-> a, countries |-> cs, sort |-> sort,
                            ups |-> ups]
                /\ outcome' = Return(run.acc.all_reviews)
                /\ fetch_calls' = run.fetch_calls
                /\ upstream_calls' = run.upstream_calls
    /\ pc' = "returned"
    /\ UNCHANGED aggVars
    /\ UNCHANGED sessionVars

\* a whole call of appstore_engine.fetch_reviews_multi_country
ASCallReviewsMultiCountry ==
    /\ pc = "idle"
    /\ \E n \in 1..MaxRegions, by \in ASMultiCallers, app_name \in ASAppNames :
         \E ups \in [1..n -> MultiASUpstream] :
            LET a   == [platform |-> "App Store", app_name |-> app_name,
                        app_id |-> by.app_id, count |-> MaxCount,
                        sort |-> by.sort, text_only |-> FALSE]
                cs  == SubSeq(ASDefaultCountries, 1, n)
                run == ASLoop(a, cs, ups, 1, StartOfRun)
            IN  /\ call' = [fn |-> "appstore_engine.fetch_reviews_multi_country",
                            args |-> a, countries |-> cs, sort |-> by.sort,
                            menu |-> by.menu, ups |-> ups]
                /\ outcome' = Return(run.acc.all_reviews)
                /\ fetch_calls' = run.fetch_calls
                /\ upstream_calls' = run.upstream_calls
    /\ pc' = "returned"
    /\ UNCHANGED aggVars
    /\ UNCHANGED sessionVars

\* a call of AppScraperGUI._format_output
CallFormatOutput ==
    /\ pc = "idle"
    /\ \E data \in FormatInputs, output_format \in OutputFormats :
         /\ call' = [fn |-> "_format_output", data |-> data,
                     output_format |-> output_format]
         /\ outcome' = Return(FormatOutput(data, output_format))
    /\ pc' = "returned"
    /\ UNCHANGED <<aggVars, fetch_calls, upstream_calls>>
    /\ UNCHANGED sessionVars

\* a whole call of engine.fetch_reviews_multi_country, the first of the
\* process or after others; all_reviews and seen_review_ids keep what its locals ended with
GPRun ==
    /\ pc \in {"idle", "returned"}
    /\ \E n \in 1..MaxRegions, note \in BOOLEAN :
         \E ups \in [1..n -> RunGPUpstream] :
            LET a    == [platform |-> "Google Play", app_id |-> GPApp,
                         count |-> MaxCount, sort |-> Newest,
                         text_only |-> FALSE]
                cs   == SubSeq(GPDefaultCountries, 1, n)
                left == [all_reviews |-> all_reviews,
                         seen_review_ids |-> seen_review_ids]
                run  == GPLoop(a, cs, ups, 1,
                               [StartOfRun EXCEPT !.acc = LocalsAtEntry(left)])
                this == [fn |-> "engine.fetch_reviews_multi_country",
                         args |-> a, countries |-> cs, sort |-> a.sort,
                         ups |-> ups]
            IN  /\ call' = this
                /\ outcome' = Return(run.acc.all_reviews)
                /\ all_reviews' = run.acc.all_reviews
                /\ seen_review_ids' = run.acc.seen_review_ids
                /\ fetch_calls' = run.fetch_calls
                /\ upstream_calls' = run.upstream_calls
                /\ noted' = Note(note, this, Return(run.acc.all_reviews))
    /\ pc' = "returned"
    /\ UNCHANGED <<args, countries, i, fetched, result, guiVars>>

\* a whole call of appstore_engine.fetch_reviews_multi_country, the first
\* of the process or after others
ASRun ==
    /\ pc \in {"idle", "returned"}
    /\ \E n \in 1..MaxRegions, note \in BOOLEAN :
         \E ups \in [1..n -> RunASUpstream] :
            LET a    == [platform |-> "App Store", app_name |-> RunAppName,
                         app_id |-> PyNone, count |-> MaxCount,
                         sort |-> MostRecent, text_only |-> FALSE]
                cs   == SubSeq(ASDefaultCountries, 1, n)
                left == [all_reviews |-> all_reviews,
                         seen_review_ids |-> seen_review_ids]
                run  == ASLoop(a, cs, ups, 1,
                               [StartOfRun EXCEPT !.acc = LocalsAtEntry(left)])
                this == [fn |-> "appstore_engine.fetch_reviews_multi_country",
                         args |-> a, countries |-> cs, sort |-> a.sort,
                         menu |-> Newest, ups |-> ups]
            IN  /\ call' = this
                /\ outcome' = Return(run.acc.all_reviews)
                /\ all_reviews' = run.acc.all_reviews
                /\ seen_review_ids' = run.acc.seen_review_ids
                /\ fetch_calls' = run.fetch_calls
                /\ upstream_calls' = run.upstream_calls
                /\ noted' = Note(note, this, Return(run.acc.all_reviews))
    /\ pc' = "returned"
    /\ UNCHANGED <<args, countries, i, fetched, result, guiVars>>

NextRuns ==
    \/ GPRun
    \/ ASRun

\* calls of fetch_reviews_multi_country one after the other
SpecRuns == Init /\ [][NextRuns]_vars

\* bool(data) for None, a list and a dict with keys
DataTruthy(data) ==
    \/ data.type = "dict"
    \/ data.type = "list" /\ data.items # <<>>

\* the value is one the crawl handler fn got from a fetch that succeeded:
\* no Error result and, for the aggregation, no empty list
SuccessValue(fn, data) ==
    IF data.type = "dict" THEN "error" \notin DOMAIN data.items
    ELSE /\ ~IsErrorList(data.items)
         /\ fn = "_crawl_reviews_multi_country" => data.items # <<>>

\* a crawl handler from its start to the engine call: the form is read and
\* validated; the handler returns at once when validation fails, else it
\* disables the buttons and window.update() lets the window redraw
CrawlBegin(fn) ==
    /\ \E form \in GUIForms :
         LET inputs == GetInputValues(form)
         IN  IF ~ValidateInputs(inputs)
             THEN /\ outcome' = [fn |-> fn, ended |-> "rejected",
                                 before |-> Attributes]
                  /\ UNCHANGED <<pc, call, buttons>>
             ELSE /\ buttons' = SetButtonsState("disabled")
                  /\ call' = [fn |-> fn, inputs |-> inputs,
                              before |-> Attributes]
                  /\ pc' = "crawling"
                  /\ UNCHANGED outcome
    /\ written' = NoFile
    /\ UNCHANGED <<aggVars, fetch_calls, upstream_calls, noted, current_data,
                   data_type, last_success>>

\* a crawl handler from the return of the engine call to its own: try is
\* what its try block did with data
CrawlEnd(try, data) ==
    /\ current_data' = try.stored.current_data
    /\ data_type' = try.stored.data_type
    /\ buttons' = ButtonsFinally(try.ended, buttons)
    /\ last_success' =
           IF SuccessValue(call.fn, data)
           THEN [current_data |-> data, data_type |-> Opaque(DataType(call.fn))]
           ELSE last_success
    /\ outcome' = [fn |-> call.fn, ended |-> try.ended,
                   before |-> call.before, fetched |-> data]
    /\ call' = NoCall
    /\ written' = NoFile
    /\ pc' = "idle"
    /\ UNCHANGED <<aggVars, fetch_calls, upstream_calls, noted>>

\* _crawl_app_info, lines 378-386, started by a click on its button, which
\* does nothing while the button is disabled or another handler runs
CrawlAppInfoBegin ==
    /\ pc = "idle"
    /\ buttons["app_info_btn"] = "normal"
    /\ CrawlBegin("_crawl_app_info")

\* _crawl_app_info, lines 388-431
CrawlAppInfoEnd ==
    /\ pc = "crawling"
    /\ call.fn = "_crawl_app_info"
    /\ \E up \in GUIInfoUpstream(call.inputs.platform) :
         LET out  == CrawlAppInfoFetch(call.inputs, up)
             data == PyDict(out.value)
         IN  CrawlEnd(IF out.raised THEN TryRaised(Attributes)
                      ELSE CrawlTry(InfoFailed(out.value), FALSE, data,
                                    Opaque(DataType(call.fn)), data,
                                    Attributes),
                      IF out.raised THEN PyNone ELSE data)

\* _crawl_reviews, lines 435-443
CrawlReviewsBegin ==
    /\ pc = "idle"
    /\ buttons["reviews_btn"] = "normal"
    /\ CrawlBegin("_crawl_reviews")

\* _crawl_reviews, lines 445-504
CrawlReviewsEnd ==
    /\ pc = "crawling"
    /\ call.fn = "_crawl_reviews"
    /\ \E up \in GUIReviewsUpstream(call.inputs.platform),
          output_format \in OutputFormats :
         LET out  == CrawlReviewsFetch(call.inputs, up)
             data == PyList(out.value)
         IN  CrawlEnd(IF out.raised THEN TryRaised(Attributes)
                      ELSE CrawlTry(ReviewsFailed(out.value), FALSE, data,
                                    Opaque(DataType(call.fn)),
                                    FormatOutput(data, output_format),
                                    Attributes),
                      IF out.raised THEN PyNone ELSE data)

\* _crawl_reviews_multi_country, lines 508-516
CrawlMultiBegin ==
    /\ pc = "idle"
    /\ buttons["multi_country_btn"] = "normal"
    /\ CrawlBegin("_crawl_reviews_multi_country")

\* _crawl_reviews_multi_country, lines 518-570
CrawlMultiEnd ==
    /\ pc = "crawling"
    /\ call.fn = "_crawl_reviews_multi_country"
    /\ \E ups \in [1..MaxRegions -> GUIMultiUpstream(call.inputs.platform)],
          output_format \in OutputFormats :
         LET out  == CrawlMultiFetch(call.inputs,
                                     GUICountries(call.inputs.platform), ups)
             data == PyList(out.value)
         IN  CrawlEnd(IF out.raised THEN TryRaised(Attributes)
                      ELSE CrawlTry(MultiFailed(out.value), out.value = <<>>,
                                    data, Opaque(DataType(call.fn)),
                                    FormatOutput(data, output_format),
                                    Attributes),
                      IF out.raised THEN PyNone ELSE data)

\* _export_json: nothing to export; or the file dialog is cancelled; or
\* open raises; or json.dump writes current_data, all of it or, when it
\* comes to a value it cannot encode, what goes before
ExportJson ==
    /\ pc = "idle"
    /\ buttons["export_btn"] = "normal"
    /\ IF ~DataTruthy(current_data)
       THEN written' = NoFile
       ELSE \E filepath \in {"", "file.json"}, opens \in BOOLEAN :
               written' =
                   IF filepath = "" \/ ~opens THEN NoFile
                   ELSE [kind |-> IF JsonEncodable(current_data)
                                  THEN "complete" ELSE "partial",
                         name |-> data_type,
                         data |-> current_data]
    /\ outcome' = [fn |-> "_export_json", ended |-> "returned",
                   before |-> Attributes,
                   after |-> IF "ended" \in DOMAIN outcome
                             THEN outcome.ended ELSE "none"]
    /\ UNCHANGED <<pc, call, aggVars, fetch_calls, upstream_calls, noted,
                   buttons, current_data, data_type, last_success>>

\* _clear_output
ClearOutput ==
    /\ pc = "idle"
    /\ buttons["clear_btn"] = "normal"
    /\ current_data' = PyNone
    /\ data_type' = PyNone
    /\ last_success' = NoData
    /\ written' = NoFile
    /\ outcome' = [fn |-> "_clear_output", ended |-> "returned",
                   before |-> Attributes]
    /\ UNCHANGED <<pc, call, aggVars, fetch_calls, upstream_calls, noted,
                   buttons>>

NextGUI ==
    \/ CrawlAppInfoBegin
    \/ CrawlAppInfoEnd
    \/ CrawlReviewsBegin
    \/ CrawlReviewsEnd
    \/ CrawlMultiBegin
    \/ CrawlMultiEnd
    \/ ExportJson
    \/ ClearOutput

\* the handlers of the five buttons, one click after the other
SpecGUI == Init /\ [][NextGUI]_vars

NextFormat == CallFormatOutput

\* the calls of _format_output
SpecFormat == Init /\ [][NextFormat]_vars

NextFetch ==
    \/ GPCallAppInfo
    \/ GPCallAppReviews
    \/ ASCallAppInfo
    \/ ASCallAppReviews
    \/ GPCallReviewsMultiCountry
    \/ ASCallReviewsMultiCountry

\* the single calls of the engines' functions
SpecFetch == Init /\ [][NextFetch]_vars

Next ==
    \/ GPMultiStart
    \/ ASMultiStart
    \/ GPMultiCall
    \/ ASMultiCall
    \/ GPMultiStep
    \/ ASMultiStep
    \/ GPMultiReturn
    \/ ASMultiReturn

Spec == Init /\ [][Next]_vars

(***************************************************************************)
(* What the countries fetched so far answered.                             *)
(***************************************************************************)
\* fetch j ended in a list of reviews, perhaps empty
Successful(j) == ~fetched[j].raised /\ ~IsErrorList(fetched[j].value)

\* the reviews country j returned: none when its fetch failed
Returned(j) == IF Successful(j) THEN fetched[j].value ELSE <<>>

IdsOf(reviews) == {ReviewId(reviews[m]) : m \in 1..Len(reviews)}

\* the ids the countries before j returned
EarlierIds(j) == UNION {IdsOf(Returned(h)) : h \in 1..(j - 1)}

DistinctIds(reviews) ==
    \A a, b \in 1..Len(reviews) :
        a # b => ReviewId(reviews[a]) # ReviewId(reviews[b])

\* the first country whose reviews hold id
FirstHolder(id) ==
    CHOOSE j \in 1..Len(fetched) :
        id \in IdsOf(Returned(j)) /\ id \notin EarlierIds(j)

\* the first review with id among reviews
FirstReview(reviews, id) ==
    reviews[CHOOSE m \in 1..Len(reviews) :
                /\ ReviewId(reviews[m]) = id
                /\ \A n \in 1..(m - 1) : ReviewId(reviews[n]) # id]

\* review m of country j has an id met neither in an earlier country nor
\* earlier in the answer of country j
Fresh(j, m) ==
    /\ ReviewId(Returned(j)[m]) \notin EarlierIds(j)
    /\ \A n \in 1..(m - 1) : ReviewId(Returned(j)[n]) # ReviewId(Returned(j)[m])

\* the fresh reviews of country j from position m on, in order, stamped
RECURSIVE Contribution(_, _, _)
Contribution(j, m, idNeeded) ==
    IF m > Len(Returned(j)) THEN <<>>
    ELSE (IF Fresh(j, m) /\ (idNeeded => Truthy(ReviewId(Returned(j)[m])))
          THEN <<Stamp(Returned(j)[m], countries[j])>>
          ELSE <<>>)
         \o Contribution(j, m + 1, idNeeded)

\* the contributions of countries 1..j, in order
RECURSIVE Concatenation(_, _)
Concatenation(j, idNeeded) ==
    IF j = 0 THEN <<>>
    ELSE Concatenation(j - 1, idNeeded) \o Contribution(j, 1, idNeeded)

(***************************************************************************)
(* The claims about the aggregation, checked under Spec.                   *)
(***************************************************************************)
\* C1: in fetch_reviews_multi_country of both platforms the review_id values
\* of the accumulated list are pairwise distinct after every iteration, and
\* so are those of the returned list, whatever the countries answer.
C1_DistinctReviewIds == DistinctIds(all_reviews) /\ DistinctIds(result)

\* an aggregation returned two reviews after two countries offered the same id
C1_Witness ==
    /\ pc = "done"
    /\ Len(result) = 2
    /\ \E j \in 1..Len(fetched) :
         \E id \in IdsOf(Returned(j)) \cap EarlierIds(j) : Truthy(id)

\* C2: first-region-wins.  Every review of the accumulated list is the
\* review the earliest country, in list order, returned under that id,
\* stamped with that country and otherwise unchanged, and no other record
\* of the list has its id; the returned list is the accumulated one.
C2_FirstRegionWins ==
    /\ \A k \in 1..Len(all_reviews) :
         LET id == ReviewId(all_reviews[k])
         IN  /\ \E j \in 1..Len(fetched) : id \in IdsOf(Returned(j))
             /\ all_reviews[k] =
                    Stamp(FirstReview(Returned(FirstHolder(id)), id),
                          countries[FirstHolder(id)])
             /\ all_reviews[k].fetched_from_country = countries[FirstHolder(id)]
             /\ \A m \in 1..Len(all_reviews) :
                    ReviewId(all_reviews[m]) = id => m = k
    /\ pc = "done" => result = all_reviews

\* two countries returned the same id under different texts, and the
\* aggregation returned it
C2_Witness ==
    /\ pc = "done"
    /\ \E j \in 1..Len(fetched) :
         \E id \in IdsOf(Returned(j)) \cap EarlierIds(j) :
            /\ id \in IdsOf(result)
            /\ FirstReview(Returned(j), id).text
                   # FirstReview(Returned(FirstHolder(id)), id).text

\* C3 as stated: the returned list is the concatenation, in country order,
\* of every successful country's reviews whose review_id no earlier country
\* returned, each once and in upstream order.
C3_Original == pc = "done" => result = Concatenation(Len(fetched), FALSE)

\* C3 as amended: the same of the reviews that have a non-empty review_id;
\* a review whose review_id is missing, None or '' is in no result.  It
\* holds of the accumulated list after every iteration too.
C3_Concatenation ==
    /\ pc = "loop" => all_reviews = Concatenation(Len(fetched), TRUE)
    /\ pc = "done" => /\ Len(fetched) = Len(countries)
                      /\ result = Concatenation(Len(fetched), TRUE)

\* the first country returned one id, the second the same id and then a new
\* one: the result is the first country's review, then the new one
C3_Witness ==
    /\ pc = "done"
    /\ Len(fetched) = 2
    /\ Len(Returned(1)) = 1
    /\ Len(Returned(2)) = 2
    /\ ReviewId(Returned(2)[1]) = ReviewId(Returned(1)[1])
    /\ Len(result) = 2
    /\ result[1].fetched_from_country = countries[1]
    /\ result[2].fetched_from_country = countries[2]

\* C4 as stated: when a country's fetch fails or returns nothing, every
\* country is fetched all the same, the returned list holds every review
\* the successful countries returned, and it is no Error when a country
\* returned a review.
C4_Original ==
    (pc = "done" /\ \E j \in 1..Len(fetched) : Returned(j) = <<>>) =>
        /\ Len(fetched) = Len(countries)
        /\ \A j \in 1..Len(fetched) : IdsOf(Returned(j)) \subseteq IdsOf(result)
        /\ (\E j \in 1..Len(fetched) : Returned(j) # <<>>) => ~IsErrorList(result)

\* C4 as amended: the same of the reviews with a non-empty review_id, and
\* the returned list is then not empty either.  The loop fetches the
\* countries one by one whatever the earlier ones did.
C4_PartialFailure ==
    /\ pc = "loop" => Len(fetched) = i - 1
    /\ pc = "done" =>
         /\ Len(fetched) = Len(countries)
         /\ \A j \in 1..Len(fetched) :
                \A id \in IdsOf(Returned(j)) : Truthy(id) => id \in IdsOf(result)
         /\ (\E j \in 1..Len(fetched) : \E id \in IdsOf(Returned(j)) : Truthy(id))
                => result # <<>> /\ ~IsErrorList(result)

\* the first country failed or returned nothing, the second returned a
\* review, and the aggregation returned it
C4_Witness ==
    /\ pc = "done"
    /\ Len(fetched) = 2
    /\ Returned(1) = <<>>
    /\ \E id \in IdsOf(Returned(2)) : Truthy(id) /\ id \in IdsOf(result)

\* C5: when no country contributed a review, the aggregation returns a
\* single Error record and not an empty list.
C5_TotalFailureIsError ==
    (pc = "done" /\ all_reviews = <<>>) => Len(result) = 1 /\ IsErrorList(result)

(***************************************************************************)
(* The claims about the single adapter calls, checked under SpecFetch.     *)
(***************************************************************************)
GPReviewsReturned == pc = "returned" /\ call.fn = "engine.fetch_app_reviews"

ASReviewsReturned ==
    pc = "returned" /\ call.fn = "appstore_engine.fetch_app_reviews"

GPInfoReturned == pc = "returned" /\ call.fn = "engine.fetch_app_info"

ASInfoReturned == pc = "returned" /\ call.fn = "appstore_engine.fetch_app_info"

\* a value that is a list of reviews, perhaps empty, and no Error
IsReviewList(v) ==
    \A k \in 1..Len(v) :
        {"review_id", "text"} \subseteq DOMAIN v[k] /\ "error" \notin DOMAIN v[k]

\* text.strip() is a non-empty str
NonBlank(text) == text.type = "str" /\ Truthy(Strip(text))

\* C6: with text_only, every review either adapter's fetch_app_reviews
\* returns has a text that is not empty after trimming whitespace.
C6_TextOnlyNonBlank ==
    ((GPReviewsReturned \/ ASReviewsReturned) /\ call.text_only
        /\ ~outcome.raised /\ ~IsErrorList(outcome.value))
    => \A k \in 1..Len(outcome.value) : NonBlank(outcome.value[k].text)

\* C7: the list appstore_engine.fetch_app_reviews returns has at most 500
\* elements, for every count and every feed.
C7_AtMostMaxReviews ==
    (ASReviewsReturned /\ ~outcome.raised) => Len(outcome.value) <= MaxReviews

\* more than 500 were asked of a feed of more than 500 reviews, and 500
\* were returned
C7_Witness ==
    /\ ASReviewsReturned
    /\ call.count > MaxReviews
    /\ call.up.kind = "ok"
    /\ Len(call.up.entries) - 1 > MaxReviews
    /\ Len(outcome.value) = MaxReviews

\* the records scraper.reviews_analyze returned
GPUpstreamSize == IF call.up.kind = "list" THEN Len(call.up.data) ELSE 0

IsAppInfo(v) ==
    \/ {"app_id", "title", "developer"} \subseteq DOMAIN v
    \/ {"app_id", "app_name", "country"} \subseteq DOMAIN v

\* the upstream source failed: it raised, timed out, answered with a status
\* other than 200 or with a body that is no JSON
UpstreamFailed ==
    call.up.kind \in {"raise", "network_error", "http_error", "malformed"}

\* C10: every adapter call returns and raises nothing; what it returns is
\* either a success value or an Error (a mapping with the key error, or a
\* list of one such mapping), never both; it is an Error whenever the
\* upstream source failed; no list holds an Error record beside another
\* record.
C10_SuccessOrError ==
    pc = "returned" =>
        /\ ~outcome.raised
        /\ (GPInfoReturned \/ ASInfoReturned) =>
              /\ ("error" \in DOMAIN outcome.value) # IsAppInfo(outcome.value)
              /\ UpstreamFailed => "error" \in DOMAIN outcome.value
        /\ (GPReviewsReturned \/ ASReviewsReturned) =>
              /\ (Len(outcome.value) = 1 /\ IsErrorList(outcome.value))
                    # IsReviewList(outcome.value)
              /\ \A k \in 1..Len(outcome.value) :
                    "error" \in DOMAIN outcome.value[k] => Len(outcome.value) = 1
              /\ UpstreamFailed => IsErrorList(outcome.value)

\* requests raised for a numeric identifier, and the call returned the one
\* Error record of a network error
C10_Witness ==
    /\ ASReviewsReturned
    /\ call.up.kind = "network_error"
    /\ IsDigit(call.app_name)
    /\ ~outcome.raised
    /\ Len(outcome.value) = 1
    /\ outcome.value[1].error = "Network error"

(***************************************************************************)
(* The claims about failing and empty upstream answers, under SpecFetch.   *)
(***************************************************************************)
\* C11: when the scraping capability raises or returns nothing (None, an
\* empty mapping, an empty list), engine.fetch_app_info returns one Error
\* mapping and engine.fetch_app_reviews a list of one Error mapping, and
\* the Error holds the requested identifier under app_id.
C11_NothingIsError ==
    /\ (GPInfoReturned /\ call.up.kind \in {"raise", "none"}) =>
          /\ ~outcome.raised
          /\ {"error", "app_id"} \subseteq DOMAIN outcome.value
          /\ ~IsAppInfo(outcome.value)
          /\ outcome.value.app_id = call.app_id
    /\ (GPReviewsReturned /\ GPUpstreamSize = 0) =>
          /\ ~outcome.raised
          /\ Len(outcome.value) = 1
          /\ {"error", "app_id"} \subseteq DOMAIN outcome.value[1]
          /\ outcome.value[1].app_id = call.app_id

\* the capability returned an empty list, and the one Error record with the
\* requested identifier came back
C11_Witness ==
    /\ GPReviewsReturned
    /\ call.up.kind = "list"
    /\ call.up.data = <<>>
    /\ outcome.value = <<[error |-> "No reviews found", app_id |-> GPApp]>>

\* the Error of a missing identifier: a mapping with error and suggestion
IsMissingIdentifier(v) == {"error", "suggestion"} \subseteq DOMAIN v

\* C12: a call of appstore_engine.fetch_app_info or fetch_app_reviews with
\* an app_name that is not all digits and without app_id returns an Error
\* with a suggestion (fetch_app_reviews: a list of that one Error) and
\* issues no HTTP request; with an app_name that is all digits it issues
\* its one request with app_name as the identifier, whatever app_id is,
\* and returns no such Error.
C12_IdentifierOrSuggestion ==
    (ASInfoReturned \/ ASReviewsReturned) =>
        /\ ~outcome.raised
        /\ (~IsDigit(call.app_name) /\ ~Truthy(call.app_id)) =>
              /\ upstream_calls = <<>>
              /\ ASInfoReturned => IsMissingIdentifier(outcome.value)
              /\ ASReviewsReturned =>
                    /\ Len(outcome.value) = 1
                    /\ IsMissingIdentifier(outcome.value[1])
        /\ IsDigit(call.app_name) =>
              /\ Len(upstream_calls) = 1
              /\ upstream_calls[1].to = "requests.get"
              /\ upstream_calls[1].id = call.app_name
              /\ ASInfoReturned => ~IsMissingIdentifier(outcome.value)
              /\ ASReviewsReturned =>
                    \A k \in 1..Len(outcome.value) :
                        ~IsMissingIdentifier(outcome.value[k])

\* fetch_app_reviews was called with a name and no app_id: no request, and
\* the Error with the suggestion
C12_Witness ==
    /\ ASReviewsReturned
    /\ ~IsDigit(call.app_name)
    /\ call.app_id = PyNone
    /\ upstream_calls = <<>>
    /\ Len(outcome.value) = 1
    /\ outcome.value[1].suggestion = ASSuggestion
    /\ outcome.value[1].app_name = call.app_name

\* the call has an identifier: app_name is all digits or app_id is given
HasIdentifier == IsDigit(call.app_name) \/ Truthy(call.app_id)

\* C13: appstore_engine.fetch_app_reviews with an identifier and an HTTP 200
\* answer whose feed holds no entry after the first (no entry key, an
\* empty array, one entry) returns the one Error "No reviews found for this
\* app"; the Error of a status other than 200, of a network exception and
\* of a body that is no JSON has another message.
C13_NoReviewsFound ==
    (ASReviewsReturned /\ HasIdentifier) =>
        /\ (call.up.kind = "ok" /\ Len(call.up.entries) <= 1) =>
              /\ ~outcome.raised
              /\ Len(outcome.value) = 1
              /\ {"error", "app_id"} \subseteq DOMAIN outcome.value[1]
              /\ outcome.value[1].error = "No reviews found for this app"
        /\ call.up.kind \in {"http_error", "network_error", "malformed"} =>
              /\ ~outcome.raised
              /\ Len(outcome.value) = 1
              /\ "error" \in DOMAIN outcome.value[1]
              /\ outcome.value[1].error # "No reviews found for this app"

\* the feed of a numeric identifier held its first entry only, and the
\* Error of no reviews came back
C13_Witness ==
    /\ ASReviewsReturned
    /\ IsDigit(call.app_name)
    /\ call.up.kind = "ok"
    /\ Len(call.up.entries) = 1
    /\ Len(outcome.value) = 1
    /\ outcome.value[1].error = "No reviews found for this app"
    /\ outcome.value[1].app_id = call.app_name

\* C14: over a feed with the entries e0..eN, N >= 1, the list
\* appstore_engine.fetch_app_reviews returns is made of e1..eM, M the least
\* of N, count and 500: it holds, in feed order, the review_info of each of
\* them that text_only does not drop (an empty or whitespace-only text),
\* and of no other entry; no review like that of e0 is returned unless a
\* later entry reads the same.
C14_FirstEntryNeverAReview ==
    (ASReviewsReturned /\ HasIdentifier /\ call.up.kind = "ok"
        /\ Len(call.up.entries) >= 2) =>
        LET e == call.up.entries
            M == Min(Len(e) - 1, Min(call.count, MaxReviews))
            Passes(entry) ==
                call.text_only => NonBlank(Get(entry.content, Str(<<>>)))
            kept == SelectSeq(SubSeq(e, 2, M + 1), Passes)
        IN  /\ ~outcome.raised
            /\ ~IsErrorList(outcome.value)
            /\ Len(outcome.value) = Len(kept)
            /\ \A k \in 1..Len(kept) :
                  /\ outcome.value[k] = ASReviewInfo(kept[k])
                  /\ outcome.value[k].review_id = Get(kept[k].id, Str(<<>>))
                  /\ outcome.value[k].text = Get(kept[k].content, Str(<<>>))
            /\ (\A p \in 2..Len(e) : ASReviewInfo(e[p]) # ASReviewInfo(e[1])) =>
                  \A k \in 1..Len(outcome.value) :
                      outcome.value[k] # ASReviewInfo(e[1])

\* the first entry of the feed looked like a review, two more followed,
\* one review was asked for: the review of the second entry came back
C14_Witness ==
    /\ ASReviewsReturned
    /\ HasIdentifier
    /\ call.up.kind = "ok"
    /\ Len(call.up.entries) = 3
    /\ call.up.entries[1].id = R2
    /\ call.count = 1
    /\ ~call.text_only
    /\ outcome.value = <<ASReviewInfo(call.up.entries[2])>>
    /\ outcome.value[1].review_id = R1

(***************************************************************************)
(* The claim about the sort order, under SpecFetch.                        *)
(***************************************************************************)
GPMultiReturned ==
    pc = "returned" /\ call.fn = "engine.fetch_reviews_multi_country"

ASMultiReturned ==
    pc = "returned" /\ call.fn = "appstore_engine.fetch_reviews_multi_country"

\* every call of the scraper made had sort = word
ScraperSort(word) ==
    \A k \in 1..Len(upstream_calls) : upstream_calls[k].sort = word

\* every request of the feed made had sortBy = word
FeedSort(word) ==
    \A k \in 1..Len(upstream_calls) : upstream_calls[k].sortBy = word

\* C15 as stated: called with newest, rating or helpfulness, the Google
\* Play functions pass NEWEST, RATING or RELEVANT to the scraper, and
\* called with newest the App Store functions request the feed with
\* sortBy=mostRecent, for one country and for several.
C15_Original ==
    /\ (GPReviewsReturned \/ GPMultiReturned) =>
          /\ call.sort = Newest => ScraperSort("NEWEST")
          /\ call.sort = Rating => ScraperSort("RATING")
          /\ call.sort = Helpfulness => ScraperSort("RELEVANT")
    /\ ((ASReviewsReturned \/ ASMultiReturned) /\ call.sort = Newest) =>
          FeedSort("mostRecent")

\* C15 as amended: the Google Play functions pass NEWEST, RATING or RELEVANT
\* for newest, rating or helpfulness in any letter case, and NEWEST for
\* any other word.  The App Store functions take the words of the feed:
\* they request sortBy=mostRecent when called with mostRecent and
\* sortBy=mostHelpful when called with anything else, newest included.  It
\* is the crawl handlers of the GUI that turn newest into mostRecent, and
\* rating and helpfulness into mostHelpful, before they call the App Store
\* functions: with the menu at newest the feed is requested with
\* sortBy=mostRecent, for one country and for several.
C15_SortRemap ==
    /\ (GPReviewsReturned \/ GPMultiReturned) =>
          /\ upstream_calls # <<>>
          /\ Lower(call.sort) = Newest => ScraperSort("NEWEST")
          /\ Lower(call.sort) = Rating => ScraperSort("RATING")
          /\ Lower(call.sort) = Helpfulness => ScraperSort("RELEVANT")
          /\ Lower(call.sort) \notin {Newest, Rating, Helpfulness}
                => ScraperSort("NEWEST")
    /\ (ASReviewsReturned \/ ASMultiReturned) =>
          /\ call.sort = MostRecent => FeedSort("mostRecent")
          /\ call.sort # MostRecent => FeedSort("mostHelpful")
          /\ call.menu = Newest =>
                call.sort = MostRecent /\ FeedSort("mostRecent")
          /\ call.menu \in {Rating, Helpfulness} =>
                call.sort = MostHelpful /\ FeedSort("mostHelpful")
          /\ (call.menu = PyNone /\ call.sort = Newest) => FeedSort("mostHelpful")

\* the multi-country handler of the GUI, the menu at newest, called the App
\* Store aggregation for two countries: two requests, both sortBy=mostRecent
C15_Witness ==
    /\ ASMultiReturned
    /\ call.menu = Newest
    /\ Len(upstream_calls) = 2
    /\ upstream_calls[1].sortBy = "mostRecent"
    /\ upstream_calls[2].sortBy = "mostRecent"
    /\ upstream_calls[2].country = call.countries[2]

(***************************************************************************)
(* The claims about _format_output, under SpecFormat.                      *)
(***************************************************************************)
FormatReturned == pc = "returned" /\ call.fn = "_format_output"

\* data is a review collection that is not empty: a list, its first item
\* no Error
IsReviewCollection(data) ==
    /\ data.type = "list"
    /\ data.items # <<>>
    /\ "error" \notin DOMAIN data.items[1]

\* the value of the review under key, the empty str when it has no such key
ValueOrEmpty(review, key) ==
    IF key \in DOMAIN review THEN review[key] ELSE Str(<<>>)

\* C16: of a review collection that is not empty, _format_output returns a
\* list of the same length and order; under "Text only" item k has the one
\* key text, under "Title + Text" the two keys title and text, each with
\* the value review k has under that key, the empty str when it has none;
\* under "Full" it returns the collection unchanged.
C16_Projection ==
    (FormatReturned /\ IsReviewCollection(call.data)) =>
        LET in  == call.data.items
            res == outcome.value
        IN  /\ ~outcome.raised
            /\ res.type = "list"
            /\ Len(res.items) = Len(in)
            /\ call.output_format = "Text only" =>
                  \A k \in 1..Len(in) :
                      /\ DOMAIN res.items[k] = {"text"}
                      /\ res.items[k].text = ValueOrEmpty(in[k], "text")
            /\ call.output_format = "Title + Text" =>
                  \A k \in 1..Len(in) :
                      /\ DOMAIN res.items[k] = {"title", "text"}
                      /\ res.items[k].title = ValueOrEmpty(in[k], "title")
                      /\ res.items[k].text = ValueOrEmpty(in[k], "text")
            /\ call.output_format = "Full" => res = call.data

\* two Google Play reviews, which have no title, under "Title + Text": two
\* items, the title empty, the text that of the review
C16_Witness ==
    /\ FormatReturned
    /\ call.output_format = "Title + Text"
    /\ IsReviewCollection(call.data)
    /\ Len(call.data.items) = 2
    /\ "title" \notin DOMAIN call.data.items[1]
    /\ call.data.items[2].text = Str(<<"a">>)
    /\ Len(outcome.value.items) = 2
    /\ outcome.value.items[2] = [title |-> Str(<<>>), text |-> Str(<<"a">>)]

\* C17: under every output format _format_output returns what it is given
\* when that is an AppInfo mapping, an Error mapping, an empty list or a
\* list whose first item is an Error.
C17_PassThrough ==
    (FormatReturned /\ ~IsReviewCollection(call.data)) =>
        /\ ~outcome.raised
        /\ outcome.value = call.data

\* a list of one Error under "Text only" came back as it was
C17_Witness ==
    /\ FormatReturned
    /\ call.output_format = "Text only"
    /\ call.data.type = "list"
    /\ Len(call.data.items) = 1
    /\ "error" \in DOMAIN call.data.items[1]
    /\ outcome.value = call.data

(***************************************************************************)
(* The claims about the review records, under SpecFetch.                   *)
(***************************************************************************)
\* the keys of the Review of the specification that both sources are to
\* have, and the two ways it counts votes
UnifiedKeys ==
    {"review_id", "user_name", "rating", "date", "title", "text",
     "reply_text", "reply_date"}

GPReviewKeys ==
    {"review_id", "user_name", "user_image", "rating", "date", "text",
     "thumbs_up", "app_version", "reply_text", "reply_date"}

ASReviewKeys ==
    {"review_id", "user_name", "rating", "date", "title", "text", "version",
     "vote_sum", "vote_count"}

\* a call of either fetch_app_reviews returned a list of reviews
ReviewsReturned ==
    /\ GPReviewsReturned \/ ASReviewsReturned
    /\ ~outcome.raised
    /\ ~IsErrorList(outcome.value)

IsSentinel(v) == v = PyNone \/ v = Opaque("N/A")

\* C19: the rating of every review either fetch_app_reviews returns is a
\* number or the sentinel, never a str that reads as a number; a rating
\* that is no number is replaced by the sentinel.
C19_NumericOrSentinel ==
    ReviewsReturned =>
        \A k \in 1..Len(outcome.value) :
            \/ outcome.value[k].rating.type = "int"
            \/ IsSentinel(outcome.value[k].rating)

(***************************************************************************)
(* The claim about the order of the fetches, under Spec.                   *)
(***************************************************************************)
\* the countries of the calls of fetch_app_reviews made so far
FetchedCountries == [j \in 1..Len(fetch_calls) |-> fetch_calls[j].country]

\* C20: during an aggregation the calls of fetch_app_reviews made so far
\* are those for the first countries of the list, one each and in list
\* order; a call is made only when every earlier call has returned; when
\* the aggregation returns, the countries called are the list itself.  No
\* country is called twice, whether its fetch failed or not, and a fetch
\* calls the scraper or requests the feed at most once.
C20_OneFetchPerRegion ==
    pc \in {"loop", "fetching", "done"} =>
        /\ Len(fetch_calls) <= Len(countries)
        /\ FetchedCountries = SubSeq(countries, 1, Len(fetch_calls))
        /\ pc = "loop" => Len(fetch_calls) = i - 1 /\ Len(fetched) = i - 1
        /\ pc = "fetching" => Len(fetch_calls) = i /\ Len(fetched) = i - 1
        /\ pc = "done" => /\ FetchedCountries = countries
                          /\ Len(fetched) = Len(countries)
        /\ \A j, h \in 1..Len(fetch_calls) :
              j # h => fetch_calls[j].country # fetch_calls[h].country
        /\ \A j \in 1..Len(fetched) :
              ~Successful(j) =>
                  Cardinality({h \in 1..Len(fetch_calls) :
                      fetch_calls[h].country = countries[j]}) = 1
        /\ Len(upstream_calls) <= Len(fetch_calls)
        /\ \A k \in 1..Len(upstream_calls) :
              \A m \in 1..Len(upstream_calls) :
                  k # m => upstream_calls[k].country # upstream_calls[m].country
        /\ args.platform = "Google Play" =>
              Len(upstream_calls) = Len(fetch_calls)

\* the fetch of the first of two countries failed, that of the second
\* returned reviews: two calls, one for each country, in list order
C20_Witness ==
    /\ pc = "done"
    /\ Len(countries) = 2
    /\ ~Successful(1)
    /\ Successful(2)
    /\ Returned(2) # <<>>
    /\ FetchedCountries = countries
    /\ Len(upstream_calls) = 2

\* the review ids one country answered with
AnsweredIds(up) ==
    IF up.kind = "list" THEN {up.data[m].reviewId : m \in 1..Len(up.data)}
    ELSE IF up.kind = "ok" THEN {up.entries[m].id : m \in 2..Len(up.entries)}
    ELSE {}

\* the first country of the call that answered with id
FirstAnswering(id) ==
    CHOOSE j \in 1..Len(call.ups) :
        /\ id \in AnsweredIds(call.ups[j])
        /\ \A h \in 1..(j - 1) : id \notin AnsweredIds(call.ups[h])

\* C21: a call of fetch_reviews_multi_country with the country list and the
\* answers of an earlier call returns what that call returned, tags
\* included, whatever calls came before or in between; and every id a
\* country answered with is returned, under the first country of this call
\* that answered with it, whatever ids earlier calls have seen
C21_RunsIsolated ==
    (GPMultiReturned \/ ASMultiReturned) =>
        /\ (noted # NoRun /\ noted.earlier /\ call = noted.call)
               => outcome = noted.outcome
        /\ \A j \in 1..Len(call.ups) :
              \A id \in AnsweredIds(call.ups[j]) :
                 \E m \in 1..Len(outcome.value) :
                    /\ ReviewId(outcome.value[m]) = id
                    /\ outcome.value[m].fetched_from_country
                           = call.countries[FirstAnswering(id)]

\* a call noted after another call is made again after a third one, two
\* countries answering, and returns reviews
C21_Witness ==
    /\ GPMultiReturned
    /\ noted # NoRun
    /\ noted.earlier
    /\ noted.after_other
    /\ noted.then_other
    /\ call = noted.call
    /\ Len(call.countries) = 2
    /\ outcome.value # <<>>

\* C22: appstore_engine.fetch_app_info, called with an identifier and
\* answered HTTP 200 by a feed without entry key or with an empty entry
\* array, returns an Error result
C22_NoDataIsError ==
    (/\ ASInfoReturned
     /\ HasIdentifier
     /\ call.up.kind = "ok"
     /\ call.up.entries = <<>>)
        => (~outcome.raised /\ "error" \in DOMAIN outcome.value)

\* the reviews without review_id (None or '') among reviews
WithoutId(reviews) ==
    {m \in 1..Len(reviews) : ~Truthy(ReviewId(reviews[m]))}

\* C23: in both aggregations every review admitted so far, and every review
\* returned, has a non-empty review_id; a review whose review_id is None
\* or '' is returned by fetch_app_reviews and is in no result, whatever
\* country returned it
C23_NoIdNeverAdmitted ==
    /\ WithoutId(all_reviews) = {}
    /\ WithoutId(result) = {}
    /\ \A j \in 1..Len(fetched) :
          \A m \in WithoutId(Returned(j)) :
             \A k \in 1..Len(all_reviews) :
                all_reviews[k] # Stamp(Returned(j)[m], countries[j])

\* the App Store aggregation returned reviews after both countries had
\* returned a review with the review_id ''
C23_Witness ==
    /\ pc = "done"
    /\ args.platform = "App Store"
    /\ Len(fetched) = 2
    /\ \E m \in WithoutId(Returned(1)) :
          ReviewId(Returned(1)[m]) = Str(<<>>)
    /\ WithoutId(Returned(2)) # {}
    /\ result # <<>>

\* every button is in this state
AllButtons(state) == \A b \in Buttons : buttons[b] = state

CrawlHandlers ==
    {"_crawl_app_info", "_crawl_reviews", "_crawl_reviews_multi_country"}

\* a crawl handler was the last handler to return, and ended this way:
\* "rejected" by validation, with an "error" result, with an "empty"
\* aggregation, in "success", or in its except clause ("exception")
CrawlReturned(ended) ==
    /\ pc = "idle"
    /\ "ended" \in DOMAIN outcome
    /\ outcome.fn \in CrawlHandlers
    /\ outcome.ended = ended

\* C24: a button is disabled only while a crawl handler is between its
\* validation and its return, when all five are; whenever no handler runs,
\* so after every return of a crawl handler, however it ended, all five are
\* enabled
C24_ButtonProtocol ==
    /\ (\E b \in Buttons : buttons[b] = "disabled") => pc = "crawling"
    /\ pc = "crawling" => AllButtons("disabled")
    /\ pc = "idle" => AllButtons("normal")
    /\ \A ended \in {"rejected", "error", "empty", "success", "exception"} :
          CrawlReturned(ended) => AllButtons("normal")

\* _crawl_reviews returned from its except clause, and the buttons are
\* enabled
C24_Witness ==
    /\ CrawlReturned("exception")
    /\ outcome.fn = "_crawl_reviews"
    /\ AllButtons("normal")

\* this handler was the last to return
HandlerReturned(fn) ==
    pc = "idle" /\ "ended" \in DOMAIN outcome /\ outcome.fn = fn

\* the attributes after a crawl handler stored what its engine call returned
Stored == [current_data |-> outcome.fetched,
           data_type    |-> Opaque(DataType(outcome.fn))]

\* C25 as stated: a crawl handler that ended with an Error result, with an
\* empty aggregation or in an exception (or that validation rejected) left
\* current_data and data_type as it found them, and one that ended in
\* success assigned them.
C25_Original ==
    /\ \A ended \in {"rejected", "error", "empty", "exception"} :
          CrawlReturned(ended) => Attributes = outcome.before
    /\ CrawlReturned("success") => Attributes = Stored

\* C25 as amended: a crawl handler assigns current_data and data_type
\* exactly when its engine call returned a success value (no Error result,
\* no empty aggregation), and does so before the result is formatted and
\* shown, so also when the crawl then ends in an exception; a crawl that
\* validation rejected or whose engine call returned an Error result or an
\* empty aggregation leaves them as they were, as do Export and a running
\* handler; Clear sets both to None.  So they always are the value and type
\* of the last such engine result since the last Clear, and Export writes
\* nothing (nothing or an empty list stored, dialog cancelled, open failed)
\* or that result, unprojected, under its type: all of it, or its
\* beginning when json cannot encode it.
C25_ExportState ==
    /\ CrawlReturned("rejected") => Attributes = outcome.before
    /\ \A ended \in {"error", "empty", "success", "exception"} :
          CrawlReturned(ended) =>
              /\ Attributes = IF SuccessValue(outcome.fn, outcome.fetched)
                              THEN Stored ELSE outcome.before
              /\ ended \in {"error", "empty"}
                    => ~SuccessValue(outcome.fn, outcome.fetched)
              /\ ended = "success"
                    => SuccessValue(outcome.fn, outcome.fetched)
    /\ HandlerReturned("_export_json") => Attributes = outcome.before
    /\ HandlerReturned("_clear_output") => Attributes = NoData
    /\ pc = "crawling" => Attributes = call.before
    /\ Attributes = last_success
    /\ written # NoFile =>
          /\ HandlerReturned("_export_json")
          /\ DataTruthy(written.data)
          /\ written.data = last_success.current_data
          /\ written.name = last_success.data_type
          /\ written.kind = "complete" <=> JsonEncodable(written.data)

\* Export, clicked after a crawl that ended in an exception, wrote what
\* that crawl had stored
C25_Witness ==
    /\ HandlerReturned("_export_json")
    /\ outcome.after = "exception"
    /\ written # NoFile
    /\ written.data = last_success.current_data
    /\ written.name = Opaque("reviews")

====
